---- MODULE Spec2Model ----
(***************************************************************************)
(* kflow: the execution engine (Engine.Execute), the per-mode layer        *)
(* dispatch (Layer.Execute, executeSerial, executeParallel, executeAsync)  *)
(* and the per-component execution (Layer.executeComponent).               *)
(* Layer.executeComponent with Layer.executeWithRetry is also followed     *)
(* statement by statement for one component (SpecComponent), and one call  *)
(* of Engine.Execute with its workflow and layer deadlines on a clock      *)
(* (SpecTimed).  The DataContext container (SpecData), the 'extends'       *)
(* resolution of ConfigParser (SpecParser) and ParseBytes with             *)
(* mergeConfigs, validateConfig and setDefaults (SpecConfig) are machines  *)
(* of their own, and so is NewEngine with NewLayer, the registry and       *)
(* Layer.Validate (SpecBuild).  SpecLayerFair is the layer dispatch under  *)
(* the scheduling of the goroutines.                                       *)
(*                                                                         *)
(* engine.go and component.go are found in the tail of                     *)
(* src/engine/config_inheritance_test.go; layer.go is src/engine/layer.go. *)
(***************************************************************************)
EXTENDS Integers, Sequences, FiniteSets, TLC

(***************************************************************************)
(* Bounds                                                                  *)
(***************************************************************************)
MaxLayers == 2       \* layers of a workflow
MaxComps == 2        \* enabled components of a layer
RetryLimit == 2      \* largest RetryConfig.MaxRetries
MaxDelay == 1        \* largest RetryConfig.Delay
MaxBackoffHalves == 3   \* largest RetryConfig.Backoff, counted in halves
MaxTime == 3         \* last instant of the clock
MaxTimeout == 2      \* largest Config.Timeout and LayerConfig.Timeout
NumMiddleware == 2   \* middleware registered on the engine
MaxCalls == 3        \* method calls made on one DataContext
MaxParses == 2       \* top-level calls of ParseFile on one ConfigParser
MaxDepth == 5        \* nested calls of ParseFile the machine follows
MaxMerges == 2       \* calls of mergeConfigs on one parent object

\* the calls of Engine.Execute on one engine: two goroutines, one call each
Runs == {1, 2}
LayerIds == 1..MaxLayers
CompIds == 1..MaxComps
Tasks == Runs \X LayerIds \X CompIds
Dispatches == Runs \X LayerIds

(***************************************************************************)
(* Execution modes (layer.go:13-20)                                        *)
(***************************************************************************)
SerialMode == "serial"
ParallelMode == "parallel"
AsyncMode == "async"
Modes == {SerialMode, ParallelMode, AsyncMode}

(***************************************************************************)
(* Error values (errors.go).  Every error is a record of one shape:        *)
(* type, component, layer, n (the count an aggregate reports) and cause    *)
(* (<<type, component>> of the wrapped error, <<>> when there is none).    *)
(***************************************************************************)
Nil == [type |-> "nil", component |-> 0, layer |-> 0, n |-> 0, cause |-> <<>>]

MainCallError(c) == <<"component error", c>>

CriticalComponentError(c, l) ==
    [type |-> "CriticalComponentError", component |-> c, layer |-> l, n |-> 0,
     cause |-> MainCallError(c)]

ExecutionError(c, l) ==
    [type |-> "component_execution_failed", component |-> c, layer |-> l, n |-> 0,
     cause |-> MainCallError(c)]

ComponentError(c, l) ==
    [type |-> "initialization_failed", component |-> c, layer |-> l, n |-> 0,
     cause |-> <<"initialize error", c>>]

ParallelExecutionError(l, errs) ==
    [type |-> "parallel_execution_failed", component |-> 0, layer |-> l,
     n |-> Len(errs), cause |-> <<errs[1].type, errs[1].component>>]

MiddlewareError == [type |-> "middleware_failed", component |-> 0, layer |-> 0, n |-> 0, cause |-> <<>>]

\* fmt.Errorf("middleware before execution failed: %w", err)
BeforeExecutionError(err) ==
    [type |-> "middleware before execution failed", component |-> 0, layer |-> 0, n |-> 0,
     cause |-> <<err.type, err.component>>]

HandlerError == [type |-> "handler_failed", component |-> 0, layer |-> 0, n |-> 0, cause |-> <<>>]
ContextError == [type |-> "context_done", component |-> 0, layer |-> 0, n |-> 0, cause |-> <<>>]

\* err.(*CriticalComponentError): the type assertion of layer.go:164 and engine.go:375
IsCriticalError(err) == err.type = "CriticalComponentError"

(***************************************************************************)
(* Configurations.  A layer is a LayerConfig restricted to what the run    *)
(* reads: mode, enabled, parallel, dependencies and, per enabled           *)
(* component, the critical flag.  The component of position c is named c   *)
(* (factories name the instance after ComponentConfig.Name).               *)
(***************************************************************************)
ComponentLists(maxc) ==
    UNION {[1..n -> [critical : BOOLEAN]] : n \in 1..maxc}

LayerShapes(maxc, maxp) ==
    {[mode |-> SerialMode, enabled |-> TRUE, parallel |-> 0, components |-> cs] :
        cs \in ComponentLists(maxc)}
    \cup {[mode |-> AsyncMode, enabled |-> TRUE, parallel |-> 0, components |-> cs] :
        cs \in ComponentLists(maxc)}
    \cup {[mode |-> ParallelMode, enabled |-> TRUE, parallel |-> p, components |-> cs] :
        p \in 0..maxp, cs \in ComponentLists(maxc)}
    \cup {[mode |-> SerialMode, enabled |-> FALSE, parallel |-> 0,
           components |-> [c \in 1..1 |-> [critical |-> FALSE]]]}

\* validateLayerDependencies: a dependency names a layer at a smaller position.
\* Either no layer has dependencies, or each layer depends on the one before it.
DependencyChoices(n) ==
    {[i \in 1..n |-> {}], [i \in 1..n |-> IF i > 1 THEN {i - 1} ELSE {}]}

WorkflowConfigs(maxl, maxc, maxp) ==
    UNION {{[layers |-> ls, dependencies |-> d] :
                ls \in [1..n -> LayerShapes(maxc, maxp)], d \in DependencyChoices(n)} :
           n \in 1..maxl}

(***************************************************************************)
(* State                                                                   *)
(***************************************************************************)
VARIABLES
    config,          \* Engine.config / Engine.layers, fixed at construction
    callers,         \* the goroutines that call Execute
    mu,              \* Engine.mu: 0 when free, else the run that holds it
    pc,              \* position of each Execute call
    layerIdx,        \* the layer the loop of Execute is at
    executionError,  \* local executionError of Execute
    stats,           \* the ExecutionStats of each call
    ctxDone,         \* the run's context is cancelled or past its deadline
    layerErr,        \* the value layer.Execute returned to the loop
    serialIdx,       \* the component executeSerial is at
    errors,          \* local errors of executeParallel
    task,            \* each component execution: position, error, starts
    errChan,         \* errChan of each executeParallel call
    closed,          \* errChan is "unmade", "open" or "closed"
    semaphore,       \* number of slots taken in semaphore
    wg,              \* the WaitGroup counter
    dispatchLog,     \* the layers Execute called layer.Execute on, in order
    returned,        \* the error each Execute call returned
    call,            \* one call of executeComponent, statement by statement
    timed,           \* one call of Execute with its deadlines, on a clock
    hooks,           \* the middleware hooks each Execute call has invoked
    dctx,            \* one DataContext and the goroutines that use it
    parser,          \* one ConfigParser resolving 'extends' over a set of files
    parsing,         \* one call of ParseBytes, statement by statement
    build            \* one call of NewEngine, statement by statement

vars == <<config, callers, mu, pc, layerIdx, executionError, stats, ctxDone,
          layerErr, serialIdx, errors, task, errChan, closed, semaphore, wg,
          dispatchLog, returned, call, timed,
          hooks, dctx, parser, parsing, build>>

engineVars == <<pc, layerIdx, executionError, stats, layerErr, dispatchLog, returned, mu>>
layerVars == <<serialIdx, errors, task, errChan, closed, semaphore, wg>>

NumLayers == Len(config.layers)
Layer(l) == config.layers[l]
NumComps(l) == Len(Layer(l).components)
Components(l) == 1..NumComps(l)

NoTask == [pc |-> "none", err |-> Nil, starts |-> 0]

NoLayerStats ==
    [created |-> FALSE, ended |-> FALSE, success |-> FALSE, error |-> Nil,
     componentsTotal |-> 0, componentsSuccess |-> 0, componentsFailed |-> 0]

NewStats ==
    [layersSuccess |-> 0, layersFailed |-> 0, success |-> FALSE, error |-> Nil,
     layer |-> [l \in LayerIds |-> NoLayerStats]]

\* no call of executeComponent is followed statement by statement
NoCall == [pc |-> "none"]

\* no call of Execute is followed on a clock
NoTimed == [pc |-> "none"]

\* no middleware hook has been invoked by the call
\* (before: BeforeExecution hooks invoked; failed: the one that returned an
\* error, 0 for none; later: a hook of a later phase was invoked)
NoHooks == [before |-> 0, failed |-> 0, later |-> FALSE]

\* no DataContext, no ConfigParser and no call of ParseBytes is followed
NoData == [pc |-> "none"]
NoParser == [pc |-> "none"]
NoParsing == [pc |-> "none"]

\* no call of NewEngine is followed
NoBuild == [pc |-> "none"]

\* the engine as NewEngine leaves it, for a config of cfgs and the callers cs
InitIdle(cfgs, cs) ==
    /\ config \in cfgs
    /\ callers = cs
    /\ mu = 0
    /\ pc = [r \in Runs |-> "idle"]
    /\ layerIdx = [r \in Runs |-> 0]
    /\ executionError = [r \in Runs |-> Nil]
    /\ stats = [r \in Runs |-> NewStats]
    /\ ctxDone = [r \in Runs |-> FALSE]
    /\ layerErr = [r \in Runs |-> Nil]
    /\ serialIdx = [r \in Runs |-> 0]
    /\ errors = [r \in Runs |-> <<>>]
    /\ task = [t \in Tasks |-> NoTask]
    /\ errChan = [d \in Dispatches |-> <<>>]
    /\ closed = [d \in Dispatches |-> "unmade"]
    /\ semaphore = [d \in Dispatches |-> 0]
    /\ wg = [d \in Dispatches |-> 0]
    /\ dispatchLog = [r \in Runs |-> <<>>]
    /\ returned = [r \in Runs |-> Nil]
    /\ hooks = [r \in Runs |-> NoHooks]

InitWith(cfgs, cs, calls, timeds) ==
    /\ InitIdle(cfgs, cs)
    /\ call \in calls
    /\ timed \in timeds
    /\ dctx = NoData
    /\ parser = NoParser
    /\ parsing = NoParsing
    /\ build = NoBuild

\* workflows of up to MaxLayers layers of one component each, one caller
InitEngine == InitWith(WorkflowConfigs(MaxLayers, 1, 0), {1}, {NoCall}, {NoTimed})

\* workflows of one or two layers of one component each, two concurrent callers
InitConcurrent == InitWith(WorkflowConfigs(2, 1, 0), Runs, {NoCall}, {NoTimed})

\* workflows of one layer of up to MaxComps components, one caller
InitLayer == InitWith(WorkflowConfigs(1, MaxComps, MaxComps), {1}, {NoCall}, {NoTimed})

(***************************************************************************)
(* Engine.Execute                                                          *)
(***************************************************************************)

\* a lock that lets a second call in while the first holds it
LockNeverBlocks(m) == TRUE

\* e.mu.Lock() blocks while another call holds the lock
LockFree(m) == m = 0

\* a loop that visits the layers that have dependencies before the others
DependentLayersFirst(k) ==
    LET n == Len(config.layers)
        dependent == {i \in 1..n : config.dependencies[i] # {}}
        free == (1..n) \ dependent
        Below(S, i) == Cardinality({j \in S : j < i})
    IN CHOOSE i \in 1..n :
          IF i \in dependent THEN Below(dependent, i) + 1 = k
          ELSE Cardinality(dependent) + Below(free, i) + 1 = k

\* for _, layer := range e.layers: the layer visited at position k of the loop
LayerAtPosition(k) == k

CurrentLayer(r) == LayerAtPosition(layerIdx[r])

\* a loop that forgets to keep the error of the failed layer
ForgetLayerError(err) == Nil

\* executionError = err (engine.go: the failed branch of layer.Execute)
RecordLayerError(err) == err

\* e.mu.Lock(); stats := &ExecutionStats{...}.  Taking the results of a call
\* (Discard) commutes with every step of another call, so a call is let in
\* once the results of the calls that returned are taken.
Lock(r) ==
    /\ r \in callers
    /\ pc[r] = "idle"
    /\ LockFree(mu)
    /\ \A q \in Runs : pc[q] # "returned"
    /\ mu' = r
    /\ pc' = [pc EXCEPT ![r] = "before"]
    /\ stats' = [stats EXCEPT ![r] = NewStats]
    /\ UNCHANGED <<timed, call, hooks, dctx, parser, parsing, build, config, callers, layerIdx, executionError, ctxDone, layerErr,
                   dispatchLog, returned>>
    /\ UNCHANGED layerVars

\* a hook loop that goes on to the hooks after the one that failed
AllHooksInvoked(failAt) == NumMiddleware

\* for _, middleware := range e.middleware { if err := ...BeforeExecution(...);
\* err != nil { return ... } }: the hooks invoked when hook failAt is the
\* first to fail (0: none fails)
HooksInvoked(failAt) == IF failAt = 0 THEN NumMiddleware ELSE failAt

\* the BeforeExecution hooks and the workflow timeout; the first failing hook
\* returns at once with its error wrapped (the deferred Unlock runs)
BeforeExecution(r) ==
    /\ pc[r] = "before"
    /\ \E failAt \in 0..NumMiddleware :
        /\ hooks' = [hooks EXCEPT ![r].before = HooksInvoked(failAt), ![r].failed = failAt]
        /\ IF failAt = 0
           THEN /\ pc' = [pc EXCEPT ![r] = "loop"]
                /\ layerIdx' = [layerIdx EXCEPT ![r] = 1]
                /\ UNCHANGED <<returned, mu>>
           ELSE /\ pc' = [pc EXCEPT ![r] = "returned"]
                /\ returned' = [returned EXCEPT ![r] = BeforeExecutionError(MiddlewareError)]
                /\ mu' = 0
                /\ UNCHANGED layerIdx
    /\ UNCHANGED <<timed, call, dctx, parser, parsing, build, config, callers, executionError, stats, ctxDone, layerErr, dispatchLog>>
    /\ UNCHANGED layerVars

\* top of one loop iteration: the LayerStats entry, the BeforeLayer hooks and
\* the test `if executionError == nil` that guards the call of layer.Execute
BeginLayer(r) ==
    /\ pc[r] = "loop"
    /\ layerIdx[r] <= NumLayers
    /\ LET l == CurrentLayer(r) IN
       \E hookOk \in BOOLEAN :
         LET hookErr == IF hookOk THEN Nil ELSE MiddlewareError
             execErr == IF hookOk THEN executionError[r] ELSE MiddlewareError
         IN /\ stats' = [stats EXCEPT ![r].layer[l] =
                            [created |-> TRUE, ended |-> FALSE, success |-> FALSE,
                             error |-> hookErr, componentsTotal |-> NumComps(l),
                             componentsSuccess |-> 0, componentsFailed |-> 0]]
            /\ executionError' = [executionError EXCEPT ![r] = execErr]
            /\ pc' = [pc EXCEPT ![r] = IF execErr = Nil THEN "call" ELSE "layerEnd"]
    /\ hooks' = [hooks EXCEPT ![r].later = TRUE]
    /\ UNCHANGED <<timed, call, dctx, parser, parsing, build, config, callers, mu, layerIdx, ctxDone, layerErr, dispatchLog, returned>>
    /\ UNCHANGED layerVars

\* layer.Execute has returned err: record it, run the error handler, and
\* break out of the loop when err is a *CriticalComponentError
LayerReturned(r) ==
    /\ pc[r] = "callReturned"
    /\ LET l == CurrentLayer(r)
           err == layerErr[r]
       IN IF err # Nil
          THEN \E handledErr \in {Nil, HandlerError} :
                /\ stats' = [stats EXCEPT ![r].layer[l].error = err,
                                          ![r].layer[l].success = FALSE,
                                          ![r].layersFailed = @ + 1]
                /\ executionError' = [executionError EXCEPT ![r] =
                        IF handledErr # Nil THEN handledErr ELSE RecordLayerError(err)]
                /\ pc' = [pc EXCEPT ![r] = IF IsCriticalError(err) THEN "finish" ELSE "layerEnd"]
          ELSE /\ stats' = [stats EXCEPT ![r].layer[l].success = TRUE,
                                         ![r].layersSuccess = @ + 1]
               /\ pc' = [pc EXCEPT ![r] = "layerEnd"]
               /\ UNCHANGED executionError
    /\ UNCHANGED <<timed, call, hooks, dctx, parser, parsing, build, config, callers, mu, layerIdx, ctxDone, layerErr, dispatchLog, returned>>
    /\ UNCHANGED layerVars

\* a loop that never looks at ctx
ContextIgnored(done, err) == err

\* select { case <-ctx.Done(): executionError = ctx.Err(); default: }
ContextChecked(done, err) == IF done THEN ContextError ELSE err

\* layerStats.ComponentsSuccess = layerStats.ComponentsTotal - layerStats.ComponentsFailed
ComponentsSuccess(layerStats) == layerStats.componentsTotal - layerStats.componentsFailed

\* end of one loop iteration: the layer's end time, the AfterLayer hooks
\* (their errors are only logged) and the check of ctx.Done(), whose break
\* leaves the select, not the loop
EndLayer(r) ==
    /\ pc[r] = "layerEnd"
    /\ LET l == CurrentLayer(r) IN
        /\ stats' = [stats EXCEPT ![r].layer[l].ended = TRUE,
                                  ![r].layer[l].componentsSuccess =
                                      ComponentsSuccess(stats[r].layer[l])]
        /\ executionError' = [executionError EXCEPT ![r] = ContextChecked(ctxDone[r], @)]
        /\ layerIdx' = [layerIdx EXCEPT ![r] = @ + 1]
        /\ pc' = [pc EXCEPT ![r] = IF layerIdx[r] + 1 > NumLayers THEN "finish" ELSE "loop"]
    /\ hooks' = [hooks EXCEPT ![r].later = TRUE]
    /\ UNCHANGED <<timed, call, dctx, parser, parsing, build, config, callers, mu, ctxDone, layerErr, dispatchLog, returned>>
    /\ UNCHANGED layerVars

\* statistics that report success whatever the loop recorded
AlwaysSuccess(err) == TRUE

\* stats.Success = executionError == nil
StatsSuccess(err) == err = Nil

\* after the loop: stats.Success, stats.Error, the AfterExecution hooks
\* (errors only logged), return stats, executionError; the deferred Unlock
Finish(r) ==
    /\ pc[r] = "finish"
    /\ stats' = [stats EXCEPT ![r].success = StatsSuccess(executionError[r]),
                              ![r].error = executionError[r]]
    /\ returned' = [returned EXCEPT ![r] = executionError[r]]
    /\ pc' = [pc EXCEPT ![r] = "returned"]
    /\ mu' = 0
    /\ hooks' = [hooks EXCEPT ![r].later = TRUE]
    /\ UNCHANGED <<timed, call, dctx, parser, parsing, build, config, callers, layerIdx, executionError, ctxDone, layerErr, dispatchLog>>
    /\ UNCHANGED layerVars

\* the caller cancels ctx, or a deadline of ctx passes, during the call.
\* Execute looks at ctx only in the check that ends a loop iteration, so a
\* cancellation at any earlier moment is one just before that check.
CancelContext(r) ==
    /\ pc[r] = "layerEnd"
    /\ ~ctxDone[r]
    /\ ctxDone' = [ctxDone EXCEPT ![r] = TRUE]
    /\ UNCHANGED <<timed, call, hooks, dctx, parser, parsing, build, config, callers>>
    /\ UNCHANGED engineVars
    /\ UNCHANGED layerVars

\* the caller drops the returned stats and error (the stats die with the
\* call); what is left of ended goroutines and closed channels is collected
Discard(r) ==
    /\ pc[r] = "returned"
    /\ pc' = [pc EXCEPT ![r] = "finished"]
    /\ layerIdx' = [layerIdx EXCEPT ![r] = 0]
    /\ executionError' = [executionError EXCEPT ![r] = Nil]
    /\ stats' = [stats EXCEPT ![r] = NewStats]
    /\ ctxDone' = [ctxDone EXCEPT ![r] = FALSE]
    /\ layerErr' = [layerErr EXCEPT ![r] = Nil]
    /\ serialIdx' = [serialIdx EXCEPT ![r] = 0]
    /\ errors' = [errors EXCEPT ![r] = <<>>]
    /\ dispatchLog' = [dispatchLog EXCEPT ![r] = <<>>]
    /\ returned' = [returned EXCEPT ![r] = Nil]
    /\ hooks' = [hooks EXCEPT ![r] = NoHooks]
    /\ task' = [t \in Tasks |-> IF t[1] = r /\ task[t].pc = "done" THEN NoTask ELSE task[t]]
    /\ errChan' = [d \in Dispatches |->
                    IF d[1] = r /\ closed[d] = "closed" THEN <<>> ELSE errChan[d]]
    /\ closed' = [d \in Dispatches |->
                    IF d[1] = r /\ closed[d] = "closed" THEN "unmade" ELSE closed[d]]
    /\ UNCHANGED <<timed, call, dctx, parser, parsing, build, config, callers, mu, semaphore, wg>>

(***************************************************************************)
(* Layer.Execute and the three dispatchers                                 *)
(***************************************************************************)
LayerOf(t) == t[2]
CompOf(t) == t[3]
DispatchOf(t) == <<t[1], t[2]>>
TasksOf(d) == {<<d[1], d[2], c>> : c \in Components(d[2])}

\* isCriticalComponent: the critical flag of the spec with the component's name
IsCriticalComponent(l, c) == Layer(l).components[c].critical

\* a semaphore sized by the component count whatever 'parallel' says
UnboundedCap(l) == Len(config.layers[l].components)

\* parallel := l.config.Parallel; if parallel <= 0 { parallel = len(l.components) }
SemaphoreCap(l) == IF Layer(l).parallel <= 0 THEN NumComps(l) ELSE Layer(l).parallel

\* a serial loop that goes on after a failed component
SerialIgnoresError(err) == TRUE

\* executeSerial goes on to the next component only when err == nil
SerialContinues(err) == err = Nil

\* a collector that never returns early, so that critical errors are aggregated
NeverReturnsAtOnce(err) == FALSE

\* executeParallel returns a received *CriticalComponentError at once
ReturnsAtOnce(err) == IsCriticalError(err)

\* the return statement of executeComponent once the main call has ended
WrapError(l, c, failed) ==
    IF ~failed THEN Nil
    ELSE IF IsCriticalComponent(l, c) THEN CriticalComponentError(c, l)
    ELSE ExecutionError(c, l)

\* an aggregate that names the last collected error as its cause
ParallelResultLastCause(l, errs) ==
    IF Len(errs) > 0
    THEN [ParallelExecutionError(l, errs) EXCEPT
            !.cause = <<errs[Len(errs)].type, errs[Len(errs)].component>>]
    ELSE Nil

\* the return value of executeParallel once errChan is drained and closed
ParallelResult(l, errs) ==
    IF Len(errs) > 0 THEN ParallelExecutionError(l, errs) ELSE Nil

\* the record of a goroutine or call that has ended; nothing is kept of it once
\* the caller has taken the results of the run
Ended(t, rec) ==
    IF pc[t[1]] = "finished" THEN NoTask ELSE [rec EXCEPT !.pc = "done"]

\* executeComponent returns rec.err: to executeSerial or to the goroutine of
\* executeParallel; the goroutine of executeAsync drops it and ends
Return(t, rec) ==
    IF Layer(LayerOf(t)).mode = AsyncMode
    THEN Ended(t, [rec EXCEPT !.err = Nil])
    ELSE [rec EXCEPT !.pc = "ret"]

\* if !l.config.Enabled { return nil }
ExecuteDisabled(r) ==
    /\ pc[r] = "call"
    /\ ~Layer(CurrentLayer(r)).enabled
    /\ layerErr' = [layerErr EXCEPT ![r] = Nil]
    /\ pc' = [pc EXCEPT ![r] = "callReturned"]
    /\ dispatchLog' = [dispatchLog EXCEPT ![r] = Append(@, CurrentLayer(r))]
    /\ UNCHANGED <<timed, call, hooks, dctx, parser, parsing, build, config, callers, mu, layerIdx, executionError, stats, ctxDone, returned>>
    /\ UNCHANGED layerVars

\* executeSerial is entered
ExecuteSerial(r) ==
    /\ pc[r] = "call"
    /\ Layer(CurrentLayer(r)).enabled
    /\ Layer(CurrentLayer(r)).mode = SerialMode
    /\ pc' = [pc EXCEPT ![r] = "serial"]
    /\ serialIdx' = [serialIdx EXCEPT ![r] = 1]
    /\ dispatchLog' = [dispatchLog EXCEPT ![r] = Append(@, CurrentLayer(r))]
    /\ UNCHANGED <<timed, call, hooks, dctx, parser, parsing, build, config, callers, mu, layerIdx, executionError, stats, ctxDone,
                   layerErr, returned>>
    /\ UNCHANGED <<errors, task, errChan, closed, semaphore, wg>>

\* executeSerial calls executeComponent on the component it is at
SerialCall(r) ==
    /\ pc[r] = "serial"
    /\ LET t == <<r, CurrentLayer(r), serialIdx[r]>> IN
        /\ serialIdx[r] <= NumComps(CurrentLayer(r))
        /\ task[t].pc = "none"
        /\ task' = [task EXCEPT ![t].pc = "init", ![t].starts = @ + 1]
    /\ UNCHANGED <<timed, call, hooks, dctx, parser, parsing, build, config, callers, ctxDone>>
    /\ UNCHANGED engineVars
    /\ UNCHANGED <<serialIdx, errors, errChan, closed, semaphore, wg>>

\* executeComponent returned to executeSerial: return err, or go on; after the
\* last component return nil
SerialReturn(r) ==
    /\ pc[r] = "serial"
    /\ LET l == CurrentLayer(r)
           t == <<r, l, serialIdx[r]>>
       IN /\ serialIdx[r] <= NumComps(l)
          /\ task[t].pc = "ret"
          /\ task' = [task EXCEPT ![t].pc = "done"]
          /\ IF SerialContinues(task[t].err)
             THEN /\ serialIdx' = [serialIdx EXCEPT ![r] = @ + 1]
                  /\ IF serialIdx[r] + 1 > NumComps(l)
                     THEN /\ layerErr' = [layerErr EXCEPT ![r] = Nil]
                          /\ pc' = [pc EXCEPT ![r] = "callReturned"]
                     ELSE UNCHANGED <<layerErr, pc>>
             ELSE /\ layerErr' = [layerErr EXCEPT ![r] = task[t].err]
                  /\ pc' = [pc EXCEPT ![r] = "callReturned"]
                  /\ UNCHANGED serialIdx
    /\ UNCHANGED <<timed, call, hooks, dctx, parser, parsing, build, config, callers, mu, layerIdx, executionError, stats, ctxDone,
                   dispatchLog, returned>>
    /\ UNCHANGED <<errors, errChan, closed, semaphore, wg>>

\* executeParallel: errChan and semaphore are made, one goroutine per
\* component is started (wg.Add(1) each), then errChan is ranged over
ExecuteParallel(r) ==
    /\ pc[r] = "call"
    /\ LET l == CurrentLayer(r)
           d == <<r, l>>
       IN /\ Layer(l).enabled
          /\ Layer(l).mode = ParallelMode
          /\ task' = [t \in Tasks |-> IF t \in TasksOf(d)
                                      THEN [task[t] EXCEPT !.pc = "wait"] ELSE task[t]]
          /\ wg' = [wg EXCEPT ![d] = NumComps(l)]
          /\ errChan' = [errChan EXCEPT ![d] = <<>>]
          /\ closed' = [closed EXCEPT ![d] = "open"]
          /\ semaphore' = [semaphore EXCEPT ![d] = 0]
          /\ errors' = [errors EXCEPT ![r] = <<>>]
          /\ dispatchLog' = [dispatchLog EXCEPT ![r] = Append(@, l)]
    /\ pc' = [pc EXCEPT ![r] = "collect"]
    /\ UNCHANGED <<timed, call, hooks, dctx, parser, parsing, build, config, callers, mu, layerIdx, executionError, stats, ctxDone,
                   layerErr, returned, serialIdx>>

\* semaphore <- struct{}{} succeeds while a slot is free; executeComponent is called
Acquire(t) ==
    /\ task[t].pc = "wait"
    /\ semaphore[DispatchOf(t)] < SemaphoreCap(LayerOf(t))
    /\ semaphore' = [semaphore EXCEPT ![DispatchOf(t)] = @ + 1]
    /\ task' = [task EXCEPT ![t].pc = "init", ![t].starts = @ + 1]
    /\ UNCHANGED <<timed, call, hooks, dctx, parser, parsing, build, config, callers, ctxDone>>
    /\ UNCHANGED engineVars
    /\ UNCHANGED <<serialIdx, errors, errChan, closed, wg>>

\* if err := l.executeComponent(...); err != nil { errChan <- err }
Report(t) ==
    /\ task[t].pc = "ret"
    /\ Layer(LayerOf(t)).mode = ParallelMode
    /\ IF task[t].err # Nil
       THEN /\ Len(errChan[DispatchOf(t)]) < NumComps(LayerOf(t))
            /\ errChan' = [errChan EXCEPT ![DispatchOf(t)] = Append(@, task[t].err)]
       ELSE UNCHANGED errChan
    /\ task' = [task EXCEPT ![t].pc = "exit"]
    /\ UNCHANGED <<timed, call, hooks, dctx, parser, parsing, build, config, callers, ctxDone>>
    /\ UNCHANGED engineVars
    /\ UNCHANGED <<serialIdx, errors, closed, semaphore, wg>>

\* a goroutine that ends without giving its slot back
ReleaseKeepsSlot(t) ==
    /\ task[t].pc = "exit"
    /\ wg' = [wg EXCEPT ![DispatchOf(t)] = @ - 1]
    /\ task' = [task EXCEPT ![t] = Ended(t, @)]
    /\ UNCHANGED <<timed, call, hooks, dctx, parser, parsing, build, config, callers, ctxDone>>
    /\ UNCHANGED engineVars
    /\ UNCHANGED <<serialIdx, errors, errChan, closed, semaphore>>

\* the deferred <-semaphore and wg.Done() of the goroutine
Release(t) ==
    /\ task[t].pc = "exit"
    /\ semaphore' = [semaphore EXCEPT ![DispatchOf(t)] = @ - 1]
    /\ wg' = [wg EXCEPT ![DispatchOf(t)] = @ - 1]
    /\ task' = [task EXCEPT ![t] = Ended(t, @)]
    /\ UNCHANGED <<timed, call, hooks, dctx, parser, parsing, build, config, callers, ctxDone>>
    /\ UNCHANGED engineVars
    /\ UNCHANGED <<serialIdx, errors, errChan, closed>>

\* go func() { wg.Wait(); close(errChan) }()
CloseErrChan(d) ==
    /\ closed[d] = "open"
    /\ wg[d] = 0
    /\ IF pc[d[1]] = "finished"
       THEN /\ closed' = [closed EXCEPT ![d] = "unmade"]
            /\ errChan' = [errChan EXCEPT ![d] = <<>>]
       ELSE /\ closed' = [closed EXCEPT ![d] = "closed"]
            /\ UNCHANGED errChan
    /\ UNCHANGED <<timed, call, hooks, dctx, parser, parsing, build, config, callers, ctxDone>>
    /\ UNCHANGED engineVars
    /\ UNCHANGED <<serialIdx, errors, task, semaphore, wg>>

\* for err := range errChan: one error is received and appended to errors;
\* a *CriticalComponentError is returned at once
CollectReceive(r) ==
    /\ pc[r] = "collect"
    /\ LET d == <<r, CurrentLayer(r)>> IN
        /\ errChan[d] # <<>>
        /\ errChan' = [errChan EXCEPT ![d] = Tail(@)]
        /\ errors' = [errors EXCEPT ![r] = Append(@, Head(errChan[d]))]
        /\ IF ReturnsAtOnce(Head(errChan[d]))
           THEN /\ layerErr' = [layerErr EXCEPT ![r] = Head(errChan[d])]
                /\ pc' = [pc EXCEPT ![r] = "callReturned"]
           ELSE UNCHANGED <<layerErr, pc>>
    /\ UNCHANGED <<timed, call, hooks, dctx, parser, parsing, build, config, callers, mu, layerIdx, executionError, stats, ctxDone,
                   dispatchLog, returned>>
    /\ UNCHANGED <<serialIdx, task, closed, semaphore, wg>>

\* the range loop ends (errChan empty and closed): the aggregate error or nil
CollectDone(r) ==
    /\ pc[r] = "collect"
    /\ LET d == <<r, CurrentLayer(r)>> IN
        /\ errChan[d] = <<>>
        /\ closed[d] = "closed"
        /\ layerErr' = [layerErr EXCEPT ![r] = ParallelResult(CurrentLayer(r), errors[r])]
    /\ pc' = [pc EXCEPT ![r] = "callReturned"]
    /\ UNCHANGED <<timed, call, hooks, dctx, parser, parsing, build, config, callers, mu, layerIdx, executionError, stats, ctxDone,
                   dispatchLog, returned>>
    /\ UNCHANGED layerVars

\* an executeAsync that runs its components to their end and returns the
\* error of a failed one
ExecuteAsyncJoined(r) ==
    /\ pc[r] = "call"
    /\ LET l == LayerAtPosition(layerIdx[r])
           d == <<r, l>>
       IN /\ config.layers[l].enabled
          /\ config.layers[l].mode = AsyncMode
          /\ task' = [t \in Tasks |->
                        IF t[1] = r /\ t[2] = l /\ t[3] <= Len(config.layers[l].components)
                        THEN [task[t] EXCEPT !.pc = "done", !.starts = @ + 1]
                        ELSE task[t]]
          /\ dispatchLog' = [dispatchLog EXCEPT ![r] = Append(@, l)]
          /\ \E failed \in BOOLEAN :
                layerErr' = [layerErr EXCEPT ![r] =
                                IF failed THEN ExecutionError(1, l) ELSE Nil]
    /\ pc' = [pc EXCEPT ![r] = "callReturned"]
    /\ UNCHANGED <<timed, call, hooks, dctx, parser, parsing, build, config, callers, mu, layerIdx, executionError, stats, ctxDone, returned>>
    /\ UNCHANGED <<serialIdx, errors, errChan, closed, semaphore, wg>>

\* executeAsync: one goroutine per component, return nil
ExecuteAsync(r) ==
    /\ pc[r] = "call"
    /\ LET l == CurrentLayer(r)
           d == <<r, l>>
       IN /\ Layer(l).enabled
          /\ Layer(l).mode = AsyncMode
          /\ task' = [t \in Tasks |-> IF t \in TasksOf(d)
                                      THEN [task[t] EXCEPT !.pc = "init", !.starts = @ + 1]
                                      ELSE task[t]]
          /\ dispatchLog' = [dispatchLog EXCEPT ![r] = Append(@, l)]
    /\ layerErr' = [layerErr EXCEPT ![r] = Nil]
    /\ pc' = [pc EXCEPT ![r] = "callReturned"]
    /\ UNCHANGED <<timed, call, hooks, dctx, parser, parsing, build, config, callers, mu, layerIdx, executionError, stats, ctxDone, returned>>
    /\ UNCHANGED <<serialIdx, errors, errChan, closed, semaphore, wg>>

(***************************************************************************)
(* Layer.executeComponent                                                  *)
(***************************************************************************)

\* Initialize (a component without it behaves as one whose Initialize
\* returns nil); a failure returns a ComponentError before the main call
ComponentInitialize(t) ==
    /\ task[t].pc = "init"
    /\ \E ok \in BOOLEAN :
        task' = [task EXCEPT ![t] =
                    IF ok THEN [@ EXCEPT !.pc = "exec"]
                    ELSE Return(t, [@ EXCEPT !.err = ComponentError(CompOf(t), LayerOf(t))])]
    /\ UNCHANGED <<timed, call, hooks, dctx, parser, parsing, build, config, callers, ctxDone>>
    /\ UNCHANGED engineVars
    /\ UNCHANGED <<serialIdx, errors, errChan, closed, semaphore, wg>>

\* the main call (component.Execute, or executeWithRetry) ends and its
\* error is wrapped by the critical flag
ComponentExecute(t) ==
    /\ task[t].pc = "exec"
    /\ \E failed \in BOOLEAN :
        task' = [task EXCEPT ![t].pc = "cleanup",
                             ![t].err = WrapError(LayerOf(t), CompOf(t), failed)]
    /\ UNCHANGED <<timed, call, hooks, dctx, parser, parsing, build, config, callers, ctxDone>>
    /\ UNCHANGED engineVars
    /\ UNCHANGED <<serialIdx, errors, errChan, closed, semaphore, wg>>

\* the deferred Cleanup (its error is printed only); executeComponent returns
ComponentCleanup(t) ==
    /\ task[t].pc = "cleanup"
    /\ task' = [task EXCEPT ![t] = Return(t, @)]
    /\ UNCHANGED <<timed, call, hooks, dctx, parser, parsing, build, config, callers, ctxDone>>
    /\ UNCHANGED engineVars
    /\ UNCHANGED <<serialIdx, errors, errChan, closed, semaphore, wg>>

(***************************************************************************)
(* Layer.executeComponent and Layer.executeWithRetry, statement by         *)
(* statement, for one component instance of a layer.                       *)
(*                                                                         *)
(* The error of the main call is a record of one shape: type, attempt (the *)
(* attempt that produced it, for a RetryExhaustedError the attempt of its  *)
(* LastError, 0 when that is nil), errs (RetryErrors, each error named by  *)
(* its attempt) and maxRetries.                                            *)
(***************************************************************************)
NoError == [type |-> "nil", attempt |-> 0, errs |-> <<>>, maxRetries |-> 0]

\* the error component.Execute returns at its i-th invocation
AttemptError(i) == [type |-> "component error", attempt |-> i, errs |-> <<>>, maxRetries |-> 0]

\* ctx.Err()
ContextDone == [type |-> "context_done", attempt |-> 0, errs |-> <<>>, maxRetries |-> 0]

\* &RetryExhaustedError{MaxRetries, LastError: lastErr, RetryErrors: retryErrors}
RetryExhaustedError(max, last, errs) ==
    [type |-> "RetryExhaustedError", attempt |-> last, errs |-> errs, maxRetries |-> max]

\* RetryConfig; nothing validates it, so MaxRetries may be negative
RetryConfigs ==
    [maxRetries : -1..RetryLimit, delay : 0..MaxDelay, backoffHalves : 0..MaxBackoffHalves]

\* the capabilities of an instance: InitializableComponent, CleanupComponent,
\* RetryableComponent with its GetRetryConfig()
Instances ==
    {[initializable |-> i, cleanup |-> c, retryable |-> TRUE, retry |-> rc] :
        i \in BOOLEAN, c \in BOOLEAN, rc \in RetryConfigs}
    \cup {[initializable |-> i, cleanup |-> c, retryable |-> FALSE,
           retry |-> [maxRetries |-> 0, delay |-> 0, backoffHalves |-> 0]] :
            i \in BOOLEAN, c \in BOOLEAN}

\* LayerConfig.Components of a layer of two components: names are unique in a
\* layer (validateLayers, config.go:364)
SpecLists ==
    {cs \in [1..2 -> [name : {"a", "b"}, critical : BOOLEAN]] : cs[1].name # cs[2].name}

\* the states at the entry of executeComponent: the instance was created from
\* the spec at position 'created' and answers to that spec's name
Calls ==
    {[pc |-> "init", specs |-> cs, created |-> k, name |-> cs[k].name,
      comp |-> inst, ctxDone |-> FALSE, attempt |-> 0, lastErr |-> 0,
      retryErrors |-> <<>>, outcomes |-> <<>>, answers |-> <<>>,
      waits |-> <<>>, mainErr |-> NoError, initFailed |-> FALSE, cleanups |-> 0,
      cleanupFailed |-> FALSE, panicked |-> FALSE, result |-> Nil] :
     cs \in SpecLists, k \in 1..2, inst \in Instances}

\* a layer of one component, no caller of Engine.Execute, one call of
\* executeComponent
InitComponent ==
    InitWith({[layers |-> <<[mode |-> SerialMode, enabled |-> TRUE, parallel |-> 0,
                             components |-> <<[critical |-> FALSE]>>]>>,
               dependencies |-> <<{}>>]},
             {}, Calls, {NoTimed})

\* a lookup that takes the flag of the layer's first spec
firstSpecCritical(specs, name) == specs[1].critical

\* isCriticalComponent: the critical flag of the first spec of the layer with
\* that name, false when no spec has it
isCriticalComponent(specs, name) ==
    IF \E i \in 1..Len(specs) : specs[i].name = name
    THEN specs[CHOOSE i \in 1..Len(specs) :
                  /\ specs[i].name = name
                  /\ \A j \in 1..(i - 1) : specs[j].name # name].critical
    ELSE FALSE

\* the wrapping of a failed main call, by the critical flag found by name
WrapMainError(specs, name, err) ==
    IF err = NoError THEN Nil
    ELSE IF isCriticalComponent(specs, name)
         THEN [CriticalComponentError(name, 1) EXCEPT !.cause = <<err.type, name>>]
         ELSE [ExecutionError(name, 1) EXCEPT !.cause = <<err.type, name>>]

\* an Initialize whose failure does not end executeComponent
InitializeFailureIgnored(ok) == FALSE

\* if err := initComp.Initialize(ctx); err != nil { return &ComponentError{...} }
InitializeFailed(ok) == ~ok

\* a retry loop of MaxRetries attempts in all
OneAttemptLess(attempt, max) == attempt < max

\* for attempt := 0; attempt <= retryConfig.MaxRetries; attempt++
LoopContinues(attempt, max) == attempt <= max

\* an exponential backoff: Delay * Backoff^(attempt-1)
ExponentialDelay(rc, attempt) ==
    IF attempt = 1 THEN rc.delay
    ELSE (rc.delay * (rc.backoffHalves ^ (attempt - 1))) \div (2 ^ (attempt - 1))

\* time.Duration(float64(Delay) * (Backoff * float64(attempt-1))): the product,
\* truncated to a whole Duration
BackoffDelay(rc, attempt) == (rc.delay * rc.backoffHalves * (attempt - 1)) \div 2

\* a loop that goes on after a successful attempt
SuccessIgnored(err) == FALSE

\* if err == nil { return nil }
AttemptSucceeded(err) == err = NoError

\* a loop that never asks ShouldRetry
ShouldRetryIgnored(answer) == FALSE

\* if !component.ShouldRetry(err) { break }
BreaksLoop(answer) == ~answer

\* a Cleanup that is skipped when the main call panicked
CleanupUnlessPanic(comp, panicked) == IF comp.cleanup /\ ~panicked THEN 1 ELSE 0

\* the deferred function is registered once, for a CleanupComponent, and runs
\* once on return and on panic alike
DeferredCleanups(comp, panicked) == IF comp.cleanup THEN 1 ELSE 0

\* Initialize, when the instance has it; a failure returns the ComponentError
Initialize ==
    /\ call.pc = "init"
    /\ IF call.comp.initializable
       THEN \E ok \in BOOLEAN :
              call' = IF InitializeFailed(ok)
                      THEN [call EXCEPT !.initFailed = ~ok, !.pc = "returned",
                                        !.result = ComponentError(call.name, 1)]
                      ELSE [call EXCEPT !.initFailed = ~ok, !.pc = "main"]
       ELSE call' = [call EXCEPT !.pc = "main"]
    /\ UNCHANGED <<timed, hooks, dctx, parser, parsing, build, config, callers, ctxDone>>
    /\ UNCHANGED engineVars
    /\ UNCHANGED layerVars

\* the main call: executeWithRetry for a RetryableComponent, else one
\* component.Execute, which returns nil or an error, or panics
MainCall ==
    /\ call.pc = "main"
    /\ IF call.comp.retryable
       THEN call' = [call EXCEPT !.pc = "loop", !.attempt = 0]
       ELSE \E outcome \in {"ok", "fail", "panic"} :
              call' = [call EXCEPT !.outcomes = Append(@, outcome),
                                   !.mainErr = IF outcome = "fail" THEN AttemptError(1)
                                               ELSE NoError,
                                   !.panicked = (outcome = "panic"),
                                   !.pc = "deferred"]
    /\ UNCHANGED <<timed, hooks, dctx, parser, parsing, build, config, callers, ctxDone>>
    /\ UNCHANGED engineVars
    /\ UNCHANGED layerVars

\* the head of the retry loop: the loop ends with the RetryExhaustedError, or
\* the body starts: the delay is computed and the select is entered before
\* every attempt but the first
RetryLoop ==
    /\ call.pc = "loop"
    /\ LET rc == call.comp.retry IN
        call' = IF LoopContinues(call.attempt, rc.maxRetries)
                THEN IF call.attempt > 0
                     THEN [call EXCEPT !.waits = Append(@, BackoffDelay(rc, call.attempt)),
                                       !.pc = "select"]
                     ELSE [call EXCEPT !.pc = "attempt"]
                ELSE [call EXCEPT !.mainErr = RetryExhaustedError(rc.maxRetries,
                                                    call.lastErr, call.retryErrors),
                                  !.pc = "deferred"]
    /\ UNCHANGED <<timed, hooks, dctx, parser, parsing, build, config, callers, ctxDone>>
    /\ UNCHANGED engineVars
    /\ UNCHANGED layerVars

\* case <-ctx.Done(): return ctx.Err()
SelectDone ==
    /\ call.pc = "select"
    /\ call.ctxDone
    /\ call' = [call EXCEPT !.mainErr = ContextDone, !.pc = "deferred"]
    /\ UNCHANGED <<timed, hooks, dctx, parser, parsing, build, config, callers, ctxDone>>
    /\ UNCHANGED engineVars
    /\ UNCHANGED layerVars

\* case <-time.After(delay): the timer of a delay of 0 has expired when the
\* select is evaluated, and select picks any of the cases that are ready; a
\* longer timer expires while the select blocks, unless ctx is done first
SelectTimer ==
    /\ call.pc = "select"
    /\ \/ call.waits[Len(call.waits)] = 0
       \/ ~call.ctxDone
    /\ call' = [call EXCEPT !.pc = "attempt"]
    /\ UNCHANGED <<timed, hooks, dctx, parser, parsing, build, config, callers, ctxDone>>
    /\ UNCHANGED engineVars
    /\ UNCHANGED layerVars

\* one component.Execute of the loop, then ShouldRetry after a failure
RetryAttempt ==
    /\ call.pc = "attempt"
    /\ \E outcome \in {"ok", "fail", "panic"}, answer \in BOOLEAN :
        LET n == Len(call.outcomes) + 1
            err == IF outcome = "fail" THEN AttemptError(n) ELSE NoError
            errs == Append(call.retryErrors, n)
        IN
        /\ outcome # "fail" => answer
        /\ call' =
            IF outcome = "panic"
            THEN [call EXCEPT !.outcomes = Append(@, outcome), !.panicked = TRUE,
                              !.pc = "deferred"]
            ELSE IF AttemptSucceeded(err)
            THEN [call EXCEPT !.outcomes = Append(@, outcome), !.mainErr = NoError,
                              !.pc = "deferred"]
            ELSE IF BreaksLoop(answer)
            THEN [call EXCEPT !.outcomes = Append(@, outcome),
                              !.answers = Append(@, answer),
                              !.lastErr = n, !.retryErrors = errs,
                              !.mainErr = RetryExhaustedError(call.comp.retry.maxRetries,
                                                              n, errs),
                              !.pc = "deferred"]
            ELSE [call EXCEPT !.outcomes = Append(@, outcome),
                              !.answers = Append(@, answer),
                              !.lastErr = n, !.retryErrors = errs,
                              !.attempt = @ + 1, !.pc = "loop"]
    /\ UNCHANGED <<timed, hooks, dctx, parser, parsing, build, config, callers, ctxDone>>
    /\ UNCHANGED engineVars
    /\ UNCHANGED layerVars

\* ctx is cancelled or its deadline passes, during an attempt or during the
\* select (executeWithRetry looks at ctx in the select only)
CancelCall ==
    /\ call.pc \in {"attempt", "select"}
    /\ ~call.ctxDone
    /\ call' = [call EXCEPT !.ctxDone = TRUE]
    /\ UNCHANGED <<timed, hooks, dctx, parser, parsing, build, config, callers, ctxDone>>
    /\ UNCHANGED engineVars
    /\ UNCHANGED layerVars

\* the deferred Cleanup runs (its error is printed only); then the panic goes
\* on to the caller, or executeComponent returns the wrapped error or nil
Deferred ==
    /\ call.pc = "deferred"
    /\ \E cleanupErr \in BOOLEAN :
        /\ cleanupErr => call.comp.cleanup
        /\ call' = [call EXCEPT
                      !.cleanups = @ + DeferredCleanups(call.comp, call.panicked),
                      !.cleanupFailed = cleanupErr,
                      !.result = IF call.panicked THEN Nil
                                 ELSE WrapMainError(call.specs, call.name, call.mainErr),
                      !.pc = IF call.panicked THEN "panicked" ELSE "returned"]
    /\ UNCHANGED <<timed, hooks, dctx, parser, parsing, build, config, callers, ctxDone>>
    /\ UNCHANGED engineVars
    /\ UNCHANGED layerVars

(***************************************************************************)
(* The deadlines of one call of Engine.Execute, on a clock: the workflow   *)
(* timeout (context.WithTimeout in Engine.Execute) and the layer timeouts  *)
(* (context.WithTimeout in Layer.Execute), each with its deferred cancel.  *)
(* A layer has one component; a timeout of 0 is no timeout.                *)
(***************************************************************************)
TimedLayers == [mode : Modes, timeout : 0..MaxTimeout]

\* the states at the entry of Execute, for workflows of one or two layers
Timeds ==
    {[pc |-> "start", now |-> 0, timeout |-> w, layers |-> ls, idx |-> 0,
      runStart |-> 0, runCancelled |-> FALSE, failed |-> FALSE,
      layerStart |-> [l \in 1..Len(ls) |-> 0],
      layerCancelled |-> [l \in 1..Len(ls) |-> FALSE],
      comp |-> [l \in 1..Len(ls) |-> "idle"]] :
     w \in 0..MaxTimeout, ls \in UNION {[1..n -> TimedLayers] : n \in 1..2}}

InitTimed ==
    InitWith({[layers |-> <<[mode |-> SerialMode, enabled |-> TRUE, parallel |-> 0,
                             components |-> <<[critical |-> FALSE]>>]>>,
               dependencies |-> <<{}>>]},
             {}, {NoCall}, Timeds)

\* the context of Execute once the workflow timeout is set: done when its
\* cancel was called or its deadline has passed
RunCtxDone ==
    \/ timed.runCancelled
    \/ timed.timeout > 0 /\ timed.pc # "start" /\ timed.now >= timed.runStart + timed.timeout

\* the context Layer.Execute hands to the components of layer l: the context
\* it was given when the layer has no timeout, else a child of it, done when
\* the parent is done, its own deadline has passed or its cancel was called
LayerCtxDone(l) ==
    \/ RunCtxDone
    \/ /\ timed.layers[l].timeout > 0
       /\ \/ timed.layerCancelled[l]
          \/ timed.now >= timed.layerStart[l] + timed.layers[l].timeout

\* if e.config.Timeout > 0 { ctx, cancel = context.WithTimeout(...); defer cancel() }
SetWorkflowTimeout ==
    /\ timed.pc = "start"
    /\ timed' = [timed EXCEPT !.pc = "loop", !.idx = 1, !.runStart = timed.now]
    /\ UNCHANGED <<call, hooks, dctx, parser, parsing, build, config, callers, ctxDone>>
    /\ UNCHANGED engineVars
    /\ UNCHANGED layerVars

\* layer.Execute is called: the layer's timeout is set and its component is
\* started
EnterLayer ==
    /\ timed.pc = "loop"
    /\ timed.idx <= Len(timed.layers)
    /\ ~timed.failed
    /\ timed' = [timed EXCEPT !.pc = "inLayer",
                              !.layerStart[timed.idx] = timed.now,
                              !.comp[timed.idx] = "running"]
    /\ UNCHANGED <<call, hooks, dctx, parser, parsing, build, config, callers, ctxDone>>
    /\ UNCHANGED engineVars
    /\ UNCHANGED layerVars

\* an iteration of the loop once executionError is set: no call of
\* layer.Execute, and the check of ctx again
SkipLayer ==
    /\ timed.pc = "loop"
    /\ timed.idx <= Len(timed.layers)
    /\ timed.failed
    /\ timed' = [timed EXCEPT !.idx = @ + 1]
    /\ UNCHANGED <<call, hooks, dctx, parser, parsing, build, config, callers, ctxDone>>
    /\ UNCHANGED engineVars
    /\ UNCHANGED layerVars

\* the component of layer l ends, with nil or with an error
ComponentEnds(l) ==
    /\ timed.pc # "none"
    /\ l \in 1..Len(timed.layers)
    /\ timed.comp[l] = "running"
    /\ \E outcome \in {"ok", "failed"} :
        timed' = [timed EXCEPT !.comp[l] = outcome]
    /\ UNCHANGED <<call, hooks, dctx, parser, parsing, build, config, callers, ctxDone>>
    /\ UNCHANGED engineVars
    /\ UNCHANGED layerVars

\* layer.Execute returns: at once in async mode, else when its component has
\* ended; the deferred cancel of the layer's timeout runs; then Execute
\* records the error and checks ctx
LayerReturns ==
    /\ timed.pc = "inLayer"
    /\ LET l == timed.idx
           mode == timed.layers[l].mode
       IN /\ mode = AsyncMode \/ timed.comp[l] # "running"
          /\ timed' = [timed EXCEPT
                         !.layerCancelled[l] = timed.layers[l].timeout > 0,
                         !.failed = \/ mode # AsyncMode /\ timed.comp[l] = "failed"
                                    \/ RunCtxDone,
                         !.idx = @ + 1,
                         !.pc = "loop"]
    /\ UNCHANGED <<call, hooks, dctx, parser, parsing, build, config, callers, ctxDone>>
    /\ UNCHANGED engineVars
    /\ UNCHANGED layerVars

\* Execute returns; the deferred cancel of the workflow timeout runs
ExecuteReturns ==
    /\ timed.pc = "loop"
    /\ timed.idx > Len(timed.layers)
    /\ timed' = [timed EXCEPT !.pc = "returned", !.runCancelled = timed.timeout > 0]
    /\ UNCHANGED <<call, hooks, dctx, parser, parsing, build, config, callers, ctxDone>>
    /\ UNCHANGED engineVars
    /\ UNCHANGED layerVars

\* the clock advances, while the call or one of its components goes on
Tick ==
    /\ timed.pc # "none"
    /\ timed.now < MaxTime
    /\ \/ timed.pc # "returned"
       \/ \E l \in 1..Len(timed.layers) : timed.comp[l] = "running"
    /\ timed' = [timed EXCEPT !.now = @ + 1]
    /\ UNCHANGED <<call, hooks, dctx, parser, parsing, build, config, callers, ctxDone>>
    /\ UNCHANGED engineVars
    /\ UNCHANGED layerVars

(***************************************************************************)
(* DataContext (datacontext.go): one container, the goroutines that call   *)
(* its methods, and the maps involved as objects of a heap.  dctx.plain    *)
(* is a plain key-to-value map that sees the same writes in the same       *)
(* order; dctx.given is what the caller's initial map held when the        *)
(* container was made; the field seen of a goroutine is what the plain map *)
(* held when its read took place.                                          *)
(***************************************************************************)
Goroutines == {1, 2}
Keys == {"k1", "k2"}

\* interface{} values: a string, a non-string, and the nil of a missing key
StringValue == [kind |-> "string", v |-> "s"]
IntValue == [kind |-> "int", v |-> "1"]
Absent == [kind |-> "nil", v |-> ""]
EmptyString == [kind |-> "string", v |-> ""]
Values == {StringValue, IntValue}

\* map[string]interface{}: a missing key reads as Absent
EmptyMap == [k \in Keys |-> Absent]
InitialMaps ==
    {EmptyMap,
     [EmptyMap EXCEPT !["k1"] = StringValue],
     [EmptyMap EXCEPT !["k1"] = IntValue, !["k2"] = StringValue]}
KeysOf(m) == {k \in Keys : m[k] # Absent}

\* the map objects: the caller's initial map, the container's own map and
\* the map each goroutine gets from Snapshot
InitialMap == <<"initial", 0>>
DataMap == <<"data", 0>>
SnapshotMap(g) == <<"snapshot", g>>
NoMap == <<"none", 0>>
MapIds == {InitialMap, DataMap} \cup {SnapshotMap(g) : g \in Goroutines}

WriteOps == {"Set", "Delete"}
ReadOps == {"Get", "GetString", "Has", "Snapshot"}

\* the calls a goroutine can make: Set(k, v), Get(k), GetString(k), Delete(k),
\* Has(k), Snapshot()
OpCalls ==
    [op : {"Set"}, key : Keys, value : Values]
    \cup [op : {"Get", "GetString", "Delete", "Has"}, key : Keys, value : {Absent}]
    \cup [op : {"Snapshot"}, key : {"k1"}, value : {Absent}]

NoResult == [value |-> Absent, ok |-> FALSE]

IdleGoroutine ==
    [pc |-> "idle", op |-> "none", key |-> "k1", value |-> Absent, res |-> NoResult,
     snap |-> NoMap, copied |-> {}, seen |-> EmptyMap]

\* a caller holding an initial map, before it makes the container
DataContexts ==
    {[pc |-> "new",
      heap |-> [id \in MapIds |-> IF id = InitialMap THEN m ELSE EmptyMap],
      data |-> NoMap, given |-> m, plain |-> EmptyMap,
      writer |-> 0, readers |-> {},
      g |-> [g \in Goroutines |-> IdleGoroutine],
      calls |-> 0] : m \in InitialMaps}

InitData ==
    /\ InitIdle({[layers |-> <<[mode |-> SerialMode, enabled |-> TRUE, parallel |-> 0,
                                components |-> <<[critical |-> FALSE]>>]>>,
                  dependencies |-> <<{}>>]}, {})
    /\ call = NoCall
    /\ timed = NoTimed
    /\ dctx \in DataContexts
    /\ parser = NoParser
    /\ parsing = NoParsing
    /\ build = NoBuild

\* a "copy" that is the very map it was to copy
SameMap(own, src) == src

\* make(map[string]interface{}, n): the map the copy loop fills is a new object
FreshMap(own, src) == own

\* NewDataContext: an empty map of its own
NewDataContext ==
    /\ dctx.pc = "new"
    /\ dctx' = [dctx EXCEPT !.pc = "ready", !.data = DataMap,
                            !.heap[DataMap] = EmptyMap, !.plain = EmptyMap]
    /\ UNCHANGED <<call, timed, hooks, parser, parsing, build, config, callers, ctxDone>>
    /\ UNCHANGED engineVars
    /\ UNCHANGED layerVars

\* NewDataContextWith(initial): for k, v := range initial { ctx.data[k] = v }
NewDataContextWith ==
    /\ dctx.pc = "new"
    /\ LET id == FreshMap(DataMap, InitialMap) IN
        dctx' = [dctx EXCEPT !.pc = "ready", !.data = id,
                             !.heap[id] = dctx.heap[InitialMap],
                             !.plain = dctx.heap[InitialMap]]
    /\ UNCHANGED <<call, timed, hooks, parser, parsing, build, config, callers, ctxDone>>
    /\ UNCHANGED engineVars
    /\ UNCHANGED layerVars

\* a goroutine calls a method of the container; the map of its previous
\* Snapshot is dropped
CallOp(g) ==
    /\ dctx.pc = "ready"
    /\ dctx.g[g].pc \in {"idle", "returned"}
    /\ dctx.calls < MaxCalls
    /\ \E c \in OpCalls :
        dctx' = [dctx EXCEPT
                    !.g[g] = [IdleGoroutine EXCEPT !.pc = "call", !.op = c.op,
                                                  !.key = c.key, !.value = c.value],
                    !.heap[SnapshotMap(g)] = EmptyMap,
                    !.calls = @ + 1]
    /\ UNCHANGED <<call, timed, hooks, parser, parsing, build, config, callers, ctxDone>>
    /\ UNCHANGED engineVars
    /\ UNCHANGED layerVars

\* a write that takes the lock in read mode
WriteTakesRLock(d) == d.writer = 0

\* sync.RWMutex.Lock blocks while the lock is held in either mode
MuLockFree(d) == d.writer = 0 /\ d.readers = {}

\* sync.RWMutex.RLock blocks while the lock is held in write mode
MuRLockFree(d) == d.writer = 0

\* c.mu.Lock() of Set and Delete
MuLock(g) ==
    /\ dctx.g[g].pc = "call"
    /\ dctx.g[g].op \in WriteOps
    /\ MuLockFree(dctx)
    /\ dctx' = [dctx EXCEPT !.writer = g, !.g[g].pc = "held"]
    /\ UNCHANGED <<call, timed, hooks, parser, parsing, build, config, callers, ctxDone>>
    /\ UNCHANGED engineVars
    /\ UNCHANGED layerVars

\* c.mu.RLock() of Get, GetString, Has and Snapshot
MuRLock(g) ==
    /\ dctx.g[g].pc = "call"
    /\ dctx.g[g].op \in ReadOps
    /\ MuRLockFree(dctx)
    /\ dctx' = [dctx EXCEPT !.readers = @ \cup {g}, !.g[g].pc = "held"]
    /\ UNCHANGED <<call, timed, hooks, parser, parsing, build, config, callers, ctxDone>>
    /\ UNCHANGED engineVars
    /\ UNCHANGED layerVars

\* c.data[key] = value
Set(g) ==
    /\ dctx.g[g].pc = "held"
    /\ dctx.g[g].op = "Set"
    /\ dctx' = [dctx EXCEPT !.heap[dctx.data][dctx.g[g].key] = dctx.g[g].value,
                            !.plain[dctx.g[g].key] = dctx.g[g].value,
                            !.g[g].pc = "accessed"]
    /\ UNCHANGED <<call, timed, hooks, parser, parsing, build, config, callers, ctxDone>>
    /\ UNCHANGED engineVars
    /\ UNCHANGED layerVars

\* delete(c.data, key)
Delete(g) ==
    /\ dctx.g[g].pc = "held"
    /\ dctx.g[g].op = "Delete"
    /\ dctx' = [dctx EXCEPT !.heap[dctx.data][dctx.g[g].key] = Absent,
                            !.plain[dctx.g[g].key] = Absent,
                            !.g[g].pc = "accessed"]
    /\ UNCHANGED <<call, timed, hooks, parser, parsing, build, config, callers, ctxDone>>
    /\ UNCHANGED engineVars
    /\ UNCHANGED layerVars

\* v, ok := c.data[key]; return v, ok
Get(g) ==
    /\ dctx.g[g].pc = "held"
    /\ dctx.g[g].op = "Get"
    /\ LET v == dctx.heap[dctx.data][dctx.g[g].key] IN
        dctx' = [dctx EXCEPT !.g[g].res = [value |-> v, ok |-> v # Absent],
                             !.g[g].seen = dctx.plain,
                             !.g[g].pc = "accessed"]
    /\ UNCHANGED <<call, timed, hooks, parser, parsing, build, config, callers, ctxDone>>
    /\ UNCHANGED engineVars
    /\ UNCHANGED layerVars

\* if v, ok := c.data[key]; ok { if s, ok2 := v.(string); ok2 { return s, true } }
\* return "", false
StringOf(v) ==
    IF v # Absent /\ v.kind = "string" THEN [value |-> v, ok |-> TRUE]
    ELSE [value |-> EmptyString, ok |-> FALSE]

\* GetString: the read of c.data[key] and the type assertion
GetString(g) ==
    /\ dctx.g[g].pc = "held"
    /\ dctx.g[g].op = "GetString"
    /\ dctx' = [dctx EXCEPT !.g[g].res = StringOf(dctx.heap[dctx.data][dctx.g[g].key]),
                            !.g[g].seen = dctx.plain,
                            !.g[g].pc = "accessed"]
    /\ UNCHANGED <<call, timed, hooks, parser, parsing, build, config, callers, ctxDone>>
    /\ UNCHANGED engineVars
    /\ UNCHANGED layerVars

\* _, ok := c.data[key]; return ok
Has(g) ==
    /\ dctx.g[g].pc = "held"
    /\ dctx.g[g].op = "Has"
    /\ dctx' = [dctx EXCEPT !.g[g].res =
                                [value |-> Absent,
                                 ok |-> dctx.heap[dctx.data][dctx.g[g].key] # Absent],
                            !.g[g].seen = dctx.plain,
                            !.g[g].pc = "accessed"]
    /\ UNCHANGED <<call, timed, hooks, parser, parsing, build, config, callers, ctxDone>>
    /\ UNCHANGED engineVars
    /\ UNCHANGED layerVars

\* copy := make(map[string]interface{}, len(c.data)); an empty c.data ends
\* the range loop at once
Snapshot(g) ==
    /\ dctx.g[g].pc = "held"
    /\ dctx.g[g].op = "Snapshot"
    /\ dctx' = [dctx EXCEPT !.g[g].snap = FreshMap(SnapshotMap(g), dctx.data),
                            !.g[g].seen = dctx.plain,
                            !.g[g].pc = IF KeysOf(dctx.heap[dctx.data]) = {}
                                        THEN "accessed" ELSE "copy"]
    /\ UNCHANGED <<call, timed, hooks, parser, parsing, build, config, callers, ctxDone>>
    /\ UNCHANGED engineVars
    /\ UNCHANGED layerVars

\* for k, v := range c.data { copy[k] = v }: one iteration, on a key the
\* loop has not visited, in the order the runtime picks
SnapshotCopy(g) ==
    /\ dctx.g[g].pc = "copy"
    /\ LET src == dctx.heap[dctx.data]
           left == KeysOf(src) \ dctx.g[g].copied
       IN \E k \in left :
            dctx' = [dctx EXCEPT !.heap[dctx.g[g].snap][k] = src[k],
                                 !.g[g].copied = @ \cup {k},
                                 !.g[g].pc = IF left = {k} THEN "accessed" ELSE "copy"]
    /\ UNCHANGED <<call, timed, hooks, parser, parsing, build, config, callers, ctxDone>>
    /\ UNCHANGED engineVars
    /\ UNCHANGED layerVars

\* the deferred c.mu.Unlock() or c.mu.RUnlock(), and the return
Unlock(g) ==
    /\ dctx.g[g].pc = "accessed"
    /\ dctx' = [dctx EXCEPT !.writer = IF dctx.g[g].op \in WriteOps THEN 0 ELSE @,
                            !.readers = @ \ {g},
                            !.g[g].pc = "returned"]
    /\ UNCHANGED <<call, timed, hooks, parser, parsing, build, config, callers, ctxDone>>
    /\ UNCHANGED engineVars
    /\ UNCHANGED layerVars

NextData ==
    \/ NewDataContext
    \/ NewDataContextWith
    \/ \E g \in Goroutines : CallOp(g)
    \/ \E g \in Goroutines : MuLock(g)
    \/ \E g \in Goroutines : MuRLock(g)
    \/ \E g \in Goroutines : Set(g)
    \/ \E g \in Goroutines : Delete(g)
    \/ \E g \in Goroutines : Get(g)
    \/ \E g \in Goroutines : GetString(g)
    \/ \E g \in Goroutines : Has(g)
    \/ \E g \in Goroutines : Snapshot(g)
    \/ \E g \in Goroutines : SnapshotCopy(g)
    \/ \E g \in Goroutines : Unlock(g)

\* a DataContext made from an initial map and used by two goroutines
SpecData == InitData /\ [][NextData]_vars

(***************************************************************************)
(* ConfigParser and 'extends' (config.go:27-121): one parser, the files    *)
(* it can be pointed at, and the frames of ParseFile / ParseBytes that a   *)
(* top-level call stacks up while it loads parents.  A file is its         *)
(* 'extends' reference and whether the config resolved at it passes        *)
(* validateConfig.                                                        *)
(***************************************************************************)
FileNames == {"a", "b", "c"}
NoFile == "nofile"
NoExtends == ""
ConfigFiles == [extends : FileNames \cup {NoExtends, NoFile}, valid : BOOLEAN]

\* NewConfigParser(): visitedExtends: make(map[string]bool)
Parsers ==
    {[pc |-> "idle", files |-> fs, visitedExtends |-> {}, stack |-> <<>>, results |-> <<>>] :
        fs \in [FileNames -> ConfigFiles]}

InitParser ==
    /\ InitIdle({[layers |-> <<[mode |-> SerialMode, enabled |-> TRUE, parallel |-> 0,
                                components |-> <<[critical |-> FALSE]>>]>>,
                  dependencies |-> <<{}>>]}, {})
    /\ call = NoCall
    /\ timed = NoTimed
    /\ dctx = NoData
    /\ parser \in Parsers
    /\ parsing = NoParsing
    /\ build = NoBuild

\* the file of the innermost frame
TopFile == parser.stack[Len(parser.stack)]

\* the top-level call returns err to its caller
ParseReturns(err) ==
    [parser EXCEPT !.pc = "idle", !.stack = <<>>,
                   !.results = Append(@, [file |-> parser.stack[1], err |-> err])]

\* the innermost frame returns its config: to the frame that loads it as a
\* parent, or to the caller of the top-level call
FrameReturns ==
    IF Len(parser.stack) = 1 THEN ParseReturns("nil")
    ELSE [parser EXCEPT !.pc = "merge", !.stack = SubSeq(@, 1, Len(@) - 1)]

\* a caller calls parser.ParseFile(f) on the parser
ParseFile(f) ==
    /\ parser.pc = "idle"
    /\ Len(parser.results) < MaxParses
    /\ parser' = [parser EXCEPT !.pc = "enter", !.stack = <<f>>]
    /\ UNCHANGED <<call, timed, hooks, dctx, parsing, build, config, callers, ctxDone>>
    /\ UNCHANGED engineVars
    /\ UNCHANGED layerVars

\* os.Open fails: every frame returns the file_open_failed error
OpenFails ==
    /\ parser.pc = "enter"
    /\ TopFile = NoFile
    /\ parser' = ParseReturns("file_open_failed")
    /\ UNCHANGED <<call, timed, hooks, dctx, parsing, build, config, callers, ctxDone>>
    /\ UNCHANGED engineVars
    /\ UNCHANGED layerVars

\* ParseBytes of a config without 'extends': validateConfig, setDefaults
ParseRoot ==
    /\ parser.pc = "enter"
    /\ TopFile \in FileNames
    /\ parser.files[TopFile].extends = NoExtends
    /\ parser' = IF parser.files[TopFile].valid THEN FrameReturns
                 ELSE ParseReturns("validation_failed")
    /\ UNCHANGED <<call, timed, hooks, dctx, parsing, build, config, callers, ctxDone>>
    /\ UNCHANGED engineVars
    /\ UNCHANGED layerVars

\* if p.visitedExtends[config.Extends] { return nil, &ConfigError{Type:
\* "extends_cycle_detected"} }
ExtendsCycleDetected ==
    /\ parser.pc = "enter"
    /\ TopFile \in FileNames
    /\ parser.files[TopFile].extends # NoExtends
    /\ parser.files[TopFile].extends \in parser.visitedExtends
    /\ parser' = ParseReturns("extends_cycle_detected")
    /\ UNCHANGED <<call, timed, hooks, dctx, parsing, build, config, callers, ctxDone>>
    /\ UNCHANGED engineVars
    /\ UNCHANGED layerVars

\* a parser that forgets the references it has followed
NotMarked(visited, ref) == visited

\* p.visitedExtends[config.Extends] = true
MarkVisited(visited, ref) == visited \cup {ref}

\* p.visitedExtends[config.Extends] = true; parent, err := p.ParseFile(config.Extends)
LoadParent ==
    /\ parser.pc = "enter"
    /\ TopFile \in FileNames
    /\ parser.files[TopFile].extends # NoExtends
    /\ parser.files[TopFile].extends \notin parser.visitedExtends
    /\ Len(parser.stack) < MaxDepth
    /\ parser' = [parser EXCEPT
                    !.visitedExtends = MarkVisited(@, parser.files[TopFile].extends),
                    !.stack = Append(@, parser.files[TopFile].extends)]
    /\ UNCHANGED <<call, timed, hooks, dctx, parsing, build, config, callers, ctxDone>>
    /\ UNCHANGED engineVars
    /\ UNCHANGED layerVars

\* the parent is loaded: mergeConfigs, validateConfig(merged), setDefaults
MergeAndValidate ==
    /\ parser.pc = "merge"
    /\ parser' = IF parser.files[TopFile].valid THEN FrameReturns
                 ELSE ParseReturns("validation_failed")
    /\ UNCHANGED <<call, timed, hooks, dctx, parsing, build, config, callers, ctxDone>>
    /\ UNCHANGED engineVars
    /\ UNCHANGED layerVars

\* the steps of a call that is under way
ParseSteps ==
    \/ OpenFails
    \/ ParseRoot
    \/ ExtendsCycleDetected
    \/ LoadParent
    \/ MergeAndValidate

NextParser ==
    \/ \E f \in FileNames : ParseFile(f)
    \/ OpenFails
    \/ ParseRoot
    \/ ExtendsCycleDetected
    \/ LoadParent
    \/ MergeAndValidate

\* one parser, up to MaxParses top-level calls of ParseFile one after the
\* other; a call that has started goes on running (it is one goroutine)
SpecParser == InitParser /\ [][NextParser]_vars /\ WF_vars(ParseSteps)

(***************************************************************************)
(* Config parsing, inheritance and validation (config.go:71-445, 484-492): *)
(* one call of ParseBytes on a fresh parser, for data without 'extends' or *)
(* for data that extends a file without 'extends', and mergeConfigs called *)
(* again on the same parent object with the same data.  Configs are        *)
(* objects of a heap.  A config is its name, version, extends, timeout,    *)
(* global and metadata maps and layers; description is merged as name is;  *)
(* of a component its dependencies and retry are merged as its type is.    *)
(* Positions in errors count from 0 as in the code, -1 where there is      *)
(* none.                                                                   *)
(***************************************************************************)
\* map[string]interface{} and map[string]string: a map is its value at each
\* key, Missing at a key it does not have (the nil map has none)
GlobalKeys == {"g", "h"}
ConfigKeys == {"x", "y", "z"}
Missing == "<missing>"
NoGlobal == [k \in GlobalKeys |-> Missing]
NoComponentConfig == [k \in ConfigKeys |-> Missing]

\* a ComponentConfig as json.Unmarshal leaves it when only name and type are given
ComponentConfig(n, t) ==
    [name |-> n, type |-> t, config |-> NoComponentConfig, timeout |-> 0,
     enabled |-> FALSE, critical |-> FALSE, remove |-> FALSE]

\* a LayerConfig as json.Unmarshal leaves it when only name, mode, components
\* and dependencies are given
LayerConfig(n, m, cs, ds) ==
    [name |-> n, mode |-> m, components |-> cs, timeout |-> 0, dependencies |-> ds,
     enabled |-> FALSE, parallel |-> 0, remove |-> FALSE]

Config(n, e, g, md, ls) ==
    [name |-> n, version |-> "", extends |-> e, timeout |-> 0, global |-> g,
     metadata |-> md, layers |-> ls]

\* the nil *Config
NoConfig == [nil |-> TRUE]

SeqsUpTo2(S) == {<<>>} \cup {<<x>> : x \in S} \cup {<<x, y>> : x \in S, y \in S}

\* the layers of the data parsed without 'extends'
RootComponents ==
    {ComponentConfig("A", "t"), ComponentConfig("B", "t"), ComponentConfig("A", ""),
     ComponentConfig("", "t")}
RootLayers ==
    {LayerConfig(n, "", <<ComponentConfig("A", "t")>>, ds) :
        n \in {"L1", "L2"},
        ds \in {<<>>, <<"L1">>, <<"L2">>, <<"L9">>, <<"L1", "L2">>}}
    \cup {LayerConfig(n, m, <<ComponentConfig("A", "t")>>, <<>>) :
            n \in {"", "L1"}, m \in {"", ParallelMode, "bogus"}}
    \cup {LayerConfig("L1", "", cs, <<>>) : cs \in SeqsUpTo2(RootComponents)}
RootConfigs == {Config(n, NoExtends, NoGlobal, NoGlobal, ls) : n \in {"", "w"}, ls \in SeqsUpTo2(RootLayers)}

\* the contents of the file that the data extends
ParentConfigs ==
    {Config("p", NoExtends, [k \in GlobalKeys |-> "p"], [k \in GlobalKeys |-> "p"],
            <<LayerConfig("L1", "",
                          <<[ComponentConfig("A", "t") EXCEPT
                                !.config = [NoComponentConfig EXCEPT !["x"] = "p", !["y"] = "p"]]>>,
                          <<>>),
              LayerConfig("L2", ParallelMode,
                          <<ComponentConfig("A", "t"), ComponentConfig("B", "t")>>, <<"L1">>)>>),
     Config("p", NoExtends, NoGlobal, NoGlobal,
            <<LayerConfig("L1", "", <<ComponentConfig("A", "t")>>, <<>>)>>),
     Config("p", NoExtends, NoGlobal, NoGlobal, <<>>)}

\* the layers of the data that extends a file: removals, patches and additions
ChildComponentLists ==
    {<<>>,
     <<[ComponentConfig("A", "u") EXCEPT
           !.config = [NoComponentConfig EXCEPT !["x"] = "c", !["z"] = "c"]]>>,
     <<[ComponentConfig("A", "") EXCEPT !.remove = TRUE]>>,
     <<[ComponentConfig("A", "t") EXCEPT !.remove = TRUE]>>,
     <<ComponentConfig("B", "t")>>,
     <<ComponentConfig("B", "t"), [ComponentConfig("B", "") EXCEPT !.remove = TRUE]>>,
     <<ComponentConfig("B", "t"), ComponentConfig("B", "u")>>}
ChildLayers ==
    {[LayerConfig(n, "", <<>>, <<>>) EXCEPT !.remove = TRUE] : n \in {"L1", "L3"}}
    \cup {LayerConfig(n, "", cs, <<>>) : n \in {"L1", "L2", "L3"}, cs \in ChildComponentLists}
    \cup {LayerConfig(n, v.mode, cs, v.deps) :
            n \in {"L1", "L2", "L3"},
            v \in {[mode |-> AsyncMode, deps |-> <<>>], [mode |-> "", deps |-> <<"L2">>]},
            cs \in {<<>>, <<ComponentConfig("B", "t")>>}}
ChildConfigs ==
    {Config(v.name, "parent", v.global, v.metadata, ls) :
        v \in {[name |-> "", global |-> NoGlobal, metadata |-> NoGlobal],
               [name |-> "c", global |-> [NoGlobal EXCEPT !["g"] = "c"],
                metadata |-> [NoGlobal EXCEPT !["h"] = "c"]]},
        ls \in SeqsUpTo2(ChildLayers)}

\* the config objects: the parent ParseFile returned and the result of each
\* call of mergeConfigs
ParentObject == <<"parent", 0>>
MergedObject(k) == <<"merged", k>>
NoObject == <<"none", 0>>
ObjectIds == {ParentObject} \cup {MergedObject(k) : k \in 1..MaxMerges}

NilError == [type |-> "nil", field |-> "", layer |-> -1, component |-> -1, message |-> ""]
ValidationError(field, i, j, message) ==
    [type |-> "ValidationError", field |-> field, layer |-> i, component |-> j,
     message |-> message]

\* the error of the first iteration of a loop over 1..n that returns one
FirstError(n, E(_)) ==
    LET bad == {i \in 1..n : E(i) # NilError}
    IN IF bad = {} THEN NilError
       ELSE E(CHOOSE i \in bad : \A k \in bad : i <= k)

\* validateLayerConfig: one iteration of the loop over layer.Components
validateComponent(layer, i, j) ==
    LET c == layer.components[j] IN
    IF c.name = ""
    THEN ValidationError("layers.components.name", i - 1, j - 1, "component name cannot be empty")
    ELSE IF \E k \in 1..(j - 1) : layer.components[k].name = c.name
    THEN ValidationError("layers.components.name", i - 1, j - 1, "duplicate component name in layer")
    ELSE IF c.type = ""
    THEN ValidationError("layers.components.type", i - 1, j - 1, "component type cannot be empty")
    ELSE NilError

\* a check of the layer that looks at its mode only
validateLayerMode(layer, i) ==
    IF (IF layer.mode = "" THEN SerialMode ELSE layer.mode) \notin Modes
    THEN ValidationError("layers.mode", i - 1, -1, "invalid execution mode")
    ELSE NilError

\* validateLayerConfig(&layer, index) for the layer at position i
validateLayerConfig(layer, i) ==
    IF (IF layer.mode = "" THEN SerialMode ELSE layer.mode) \notin Modes
    THEN ValidationError("layers.mode", i - 1, -1, "invalid execution mode")
    ELSE IF Len(layer.components) = 0
    THEN ValidationError("layers.components", i - 1, -1, "layer must have at least one component")
    ELSE FirstError(Len(layer.components), LAMBDA j : validateComponent(layer, i, j))

\* validateConfig: one iteration of the loop over config.Layers
validateLayer(layers, i) ==
    IF layers[i].name = ""
    THEN ValidationError("layers.name", i - 1, -1, "layer name cannot be empty")
    ELSE IF \E k \in 1..(i - 1) : layers[k].name = layers[i].name
    THEN ValidationError("layers.name", i - 1, -1, "duplicate layer name")
    ELSE validateLayerConfig(layers[i], i)

\* layerIdx / layerMap: the position recorded for a layer name, the last one
\* of that name, 0 when there is none
LayerIndex(layers, name) ==
    LET S == {i \in 1..Len(layers) : layers[i].name = name}
    IN IF S = {} THEN 0 ELSE CHOOSE i \in S : \A k \in S : k <= i

\* a check that lets a layer depend on itself
OnlyLaterBad(depIndex, i) == depIndex > i

\* if depIndex >= i
DependencyBad(depIndex, i) == depIndex >= i

\* validateLayerDependencies: one iteration of the loop over layer.Dependencies
validateDependency(layers, i, d) ==
    LET depIndex == LayerIndex(layers, layers[i].dependencies[d]) IN
    IF depIndex = 0
    THEN ValidationError("layers.dependencies", i - 1, -1, "dependency layer not found")
    ELSE IF DependencyBad(depIndex, i)
    THEN ValidationError("layers.dependencies", i - 1, -1,
                         "circular or forward dependency detected")
    ELSE NilError

validateLayerDependencies(layers) ==
    FirstError(Len(layers),
               LAMBDA i : FirstError(Len(layers[i].dependencies),
                                     LAMBDA d : validateDependency(layers, i, d)))

validateConfig(c) ==
    IF c.name = "" THEN ValidationError("name", -1, -1, "config name cannot be empty")
    ELSE IF Len(c.layers) = 0
    THEN ValidationError("layers", -1, -1, "at least one layer must be defined")
    ELSE LET err == FirstError(Len(c.layers), LAMBDA i : validateLayer(c.layers, i))
         IN IF err # NilError THEN err ELSE validateLayerDependencies(c.layers)

\* component.Timeout = 30 * time.Second, in seconds
DefaultTimeout == 30

\* setDefaults: one component
defaultComponent(c) ==
    [c EXCEPT !.enabled = IF c.enabled = FALSE /\ c.type # "" THEN TRUE ELSE c.enabled,
              !.timeout = IF c.timeout = 0 THEN DefaultTimeout ELSE c.timeout]

\* setDefaults: one layer
defaultLayer(l) ==
    LET mode == IF l.mode = "" THEN SerialMode ELSE l.mode IN
    [l EXCEPT !.mode = mode,
              !.enabled = IF l.enabled = FALSE /\ mode # "" THEN TRUE ELSE l.enabled,
              !.components = [j \in 1..Len(l.components) |-> defaultComponent(l.components[j])]]

setDefaults(c) ==
    [c EXCEPT !.version = IF c.version = "" THEN "1.0.0" ELSE c.version,
              !.layers = [i \in 1..Len(c.layers) |-> defaultLayer(c.layers[i])]]

\* append(s[:i], s[i+1:]...)
RemoveAt(s, i) == SubSeq(s, 1, i - 1) \o SubSeq(s, i + 1, Len(s))

\* compIdx: built over the k components the layer had when it was last
\* (re)built; components appended since are not in it
ComponentIndex(comps, k, name) ==
    LET S == {i \in 1..k : comps[i].name = name}
    IN IF S = {} THEN 0 ELSE CHOOSE i \in S : \A j \in S : j <= i

\* a map replaced by the child's when the child has one
replaceMap(base, child) ==
    IF \A k \in DOMAIN child : child[k] = Missing THEN base ELSE child

\* for k, v := range child { base[k] = v }
mergeMap(base, child) ==
    [k \in DOMAIN base |-> IF child[k] # Missing THEN child[k] ELSE base[k]]

\* mergeConfigs: a component of the child over the parent's of the same name
patchComponent(bc, cc) ==
    [bc EXCEPT !.type = IF cc.type # "" THEN cc.type ELSE bc.type,
               !.config = mergeMap(bc.config, cc.config),
               !.timeout = IF cc.timeout > 0 THEN cc.timeout ELSE bc.timeout,
               !.enabled = IF cc.enabled THEN TRUE ELSE bc.enabled,
               !.critical = IF cc.critical THEN TRUE ELSE bc.critical]

RECURSIVE mergeComponents(_, _, _, _)
\* mergeConfigs: the loop over cl.Components, from its n-th iteration on
mergeComponents(comps, k, ccs, n) ==
    IF n > Len(ccs) THEN comps
    ELSE LET cc == ccs[n]
             cidx == ComponentIndex(comps, k, cc.name)
         IN IF cc.remove
            THEN IF cidx # 0
                 THEN mergeComponents(RemoveAt(comps, cidx), Len(comps) - 1, ccs, n + 1)
                 ELSE mergeComponents(comps, k, ccs, n + 1)
            ELSE IF cidx # 0
                 THEN mergeComponents([comps EXCEPT ![cidx] = patchComponent(comps[cidx], cc)],
                                      k, ccs, n + 1)
                 ELSE mergeComponents(Append(comps, cc), k, ccs, n + 1)

\* mergeConfigs: a layer of the child over the parent's of the same name
patchLayer(bl, cl) ==
    [bl EXCEPT !.mode = IF cl.mode # "" THEN cl.mode ELSE bl.mode,
               !.timeout = IF cl.timeout > 0 THEN cl.timeout ELSE bl.timeout,
               !.enabled = IF cl.enabled THEN TRUE ELSE bl.enabled,
               !.parallel = IF cl.parallel > 0 THEN cl.parallel ELSE bl.parallel,
               !.dependencies = IF Len(cl.dependencies) > 0 THEN cl.dependencies
                                ELSE bl.dependencies,
               !.components = mergeComponents(bl.components, Len(bl.components),
                                              cl.components, 1)]

RECURSIVE mergeLayers(_, _, _)
\* mergeConfigs: the loop over child.Layers, from its n-th iteration on
mergeLayers(layers, cls, n) ==
    IF n > Len(cls) THEN layers
    ELSE LET cl == cls[n]
             idx == LayerIndex(layers, cl.name)
         IN IF cl.remove
            THEN IF idx # 0 THEN mergeLayers(RemoveAt(layers, idx), cls, n + 1)
                 ELSE mergeLayers(layers, cls, n + 1)
            ELSE IF idx # 0
                 THEN mergeLayers([layers EXCEPT ![idx] = patchLayer(layers[idx], cl)], cls, n + 1)
                 ELSE mergeLayers(Append(layers, cl), cls, n + 1)

\* mergeConfigs once base is the clone of the parent
mergeConfigs(base, child) ==
    [base EXCEPT !.name = IF child.name # "" THEN child.name ELSE base.name,
                 !.version = IF child.version # "" THEN child.version ELSE base.version,
                 !.timeout = IF child.timeout > 0 THEN child.timeout ELSE base.timeout,
                 !.global = mergeMap(base.global, child.global),
                 !.metadata = mergeMap(base.metadata, child.metadata),
                 !.layers = mergeLayers(base.layers, child.layers, 1)]

\* ParseBytes of data without 'extends': validateConfig, setDefaults,
\* return &config, nil
ParseWithoutExtends(c) ==
    LET err == validateConfig(c)
    IN [cfg |-> IF err = NilError THEN setDefaults(c) ELSE NoConfig, err |-> err]

\* Clone: ToJSON, then ParseBytes of the text on a new parser; the text of a
\* resolved config reads back as the same values and has no 'extends'
Clone(c) == ParseWithoutExtends(c)

\* a clone that is the config it was to copy
SameObject(own, src) == src

\* the config json.Unmarshal fills in Clone is a new object
CloneObject(own, src) == own

\* the data is what json.Unmarshal made of the text: an 'enabled' the text
\* leaves out and an "enabled": false both read as false; explicit records
\* which of the two the text of the data had
ParseInputs ==
    {[pc |-> "start", data |-> d, explicit |-> FALSE, file |-> f,
      heap |-> [id \in ObjectIds |-> NoConfig],
      loaded |-> NoConfig, merged |-> NoObject, results |-> <<>>] :
        d \in ChildConfigs, f \in ParentConfigs}
    \cup {[pc |-> "start", data |-> d, explicit |-> e, file |-> NoConfig,
           heap |-> [id \in ObjectIds |-> NoConfig],
           loaded |-> NoConfig, merged |-> NoObject, results |-> <<>>] :
            d \in RootConfigs, e \in BOOLEAN}

InitConfig ==
    /\ InitIdle({[layers |-> <<[mode |-> SerialMode, enabled |-> TRUE, parallel |-> 0,
                                components |-> <<[critical |-> FALSE]>>]>>,
                  dependencies |-> <<{}>>]}, {})
    /\ call = NoCall
    /\ timed = NoTimed
    /\ dctx = NoData
    /\ parser = NoParser
    /\ parsing \in ParseInputs
    /\ build = NoBuild

\* ParseBytes of data without 'extends'
ParseBytes ==
    /\ parsing.pc = "start"
    /\ parsing.data.extends = NoExtends
    /\ parsing' = [parsing EXCEPT !.pc = "returned",
                                  !.results = <<ParseWithoutExtends(parsing.data)>>]
    /\ UNCHANGED <<call, timed, hooks, dctx, parser, build, config, callers, ctxDone>>
    /\ UNCHANGED engineVars
    /\ UNCHANGED layerVars

\* ParseBytes of data with 'extends': parent, err := p.ParseFile(config.Extends)
ParseParent ==
    /\ parsing.pc = "start"
    /\ parsing.data.extends # NoExtends
    /\ LET parent == ParseWithoutExtends(parsing.file) IN
        parsing' = IF parent.err # NilError
                   THEN [parsing EXCEPT !.pc = "returned", !.results = <<parent>>]
                   ELSE [parsing EXCEPT !.pc = "merge",
                                        !.heap[ParentObject] = parent.cfg,
                                        !.loaded = parent.cfg]
    /\ UNCHANGED <<call, timed, hooks, dctx, parser, build, config, callers, ctxDone>>
    /\ UNCHANGED engineVars
    /\ UNCHANGED layerVars

\* merged, err := p.mergeConfigs(parent, &config): the clone of the parent,
\* then the child's root fields, maps and layers written into it
MergeConfigs ==
    /\ parsing.pc = "merge"
    /\ LET base == Clone(parsing.heap[ParentObject])
           id == CloneObject(MergedObject(Len(parsing.results) + 1), ParentObject)
       IN parsing' = IF base.err # NilError
                     THEN [parsing EXCEPT !.pc = "returned",
                                          !.results = Append(@, base)]
                     ELSE [parsing EXCEPT !.pc = "validate",
                                          !.merged = id,
                                          !.heap[id] = mergeConfigs(base.cfg, parsing.data)]
    /\ UNCHANGED <<call, timed, hooks, dctx, parser, build, config, callers, ctxDone>>
    /\ UNCHANGED engineVars
    /\ UNCHANGED layerVars

\* validateConfig(merged); setDefaults(merged); return merged, nil
ValidateMerged ==
    /\ parsing.pc = "validate"
    /\ LET merged == parsing.heap[parsing.merged]
           err == validateConfig(merged)
       IN parsing' = IF err # NilError
                     THEN [parsing EXCEPT !.pc = "returned",
                                          !.results = Append(@, [cfg |-> NoConfig, err |-> err])]
                     ELSE [parsing EXCEPT !.pc = "returned",
                                          !.heap[parsing.merged] = setDefaults(merged),
                                          !.results = Append(@, [cfg |-> setDefaults(merged),
                                                                 err |-> NilError])]
    /\ UNCHANGED <<call, timed, hooks, dctx, parser, build, config, callers, ctxDone>>
    /\ UNCHANGED engineVars
    /\ UNCHANGED layerVars

\* the same parent is merged with the same data once more
MergeAgain ==
    /\ parsing.pc = "returned"
    /\ parsing.loaded # NoConfig
    /\ Len(parsing.results) < MaxMerges
    /\ parsing' = [parsing EXCEPT !.pc = "merge"]
    /\ UNCHANGED <<call, timed, hooks, dctx, parser, build, config, callers, ctxDone>>
    /\ UNCHANGED engineVars
    /\ UNCHANGED layerVars

NextConfig ==
    \/ ParseBytes
    \/ ParseParent
    \/ MergeConfigs
    \/ ValidateMerged
    \/ MergeAgain

\* one call of ParseBytes, and the merge repeated on the parent it loaded
SpecConfig == InitConfig /\ [][NextConfig]_vars

(***************************************************************************)
(* NewEngine (config_inheritance_test.go:264-308) with NewLayer            *)
(* (layer.go:42-68), ComponentRegistry.Create                              *)
(* (config_inheritance_test.go:610-620) and Layer.Validate                 *)
(* (layer.go:300-341): one call, one loop iteration per step.  The         *)
(* registry has a factory for the types "ok", "failing" and "invalid":     *)
(* that of "failing" returns an error, that of "invalid" a component whose *)
(* Validate returns one.  created is the list of the calls of              *)
(* registry.Create, each the position of its layer and of its component.   *)
(***************************************************************************)
RegisteredTypes == {"ok", "failing", "invalid"}

\* the nil *Config, the nil *ComponentRegistry and the nil *Engine
NilConfig == [nil |-> TRUE]
NilRegistry == [nil |-> TRUE]
NilEngine == [nil |-> TRUE]
Registry == [nil |-> FALSE]

BuildComponents ==
    {[type |-> t, enabled |-> TRUE] : t \in {"ok", "unknown", "failing", "invalid"}}
    \cup {[type |-> t, enabled |-> FALSE] : t \in {"ok", "unknown"}}
BuildComponentLists ==
    {<<c>> : c \in BuildComponents} \cup {<<c, d>> : c \in BuildComponents, d \in BuildComponents}
BuildLayers ==
    {[name |-> v.name, mode |-> v.mode, enabled |-> TRUE, components |-> cs] :
        v \in {[name |-> "L", mode |-> SerialMode], [name |-> "", mode |-> SerialMode],
               [name |-> "L", mode |-> ""], [name |-> "L", mode |-> "bogus"]},
        cs \in BuildComponentLists}
    \cup {[name |-> "L", mode |-> ParallelMode, enabled |-> FALSE, components |-> cs] :
            cs \in BuildComponentLists}
FirstBuildLayers ==
    {[name |-> "K", mode |-> SerialMode, enabled |-> e, components |-> cs] :
        e \in BOOLEAN,
        cs \in {<<[type |-> "ok", enabled |-> TRUE]>>,
                <<[type |-> "ok", enabled |-> FALSE], [type |-> "ok", enabled |-> TRUE]>>,
                <<[type |-> "unknown", enabled |-> TRUE]>>}}
BuildConfigs ==
    {[nil |-> FALSE, layers |-> ls] :
        ls \in {<<>>} \cup {<<l>> : l \in BuildLayers}
               \cup {<<k, l>> : k \in FirstBuildLayers, l \in BuildLayers}}

Builds ==
    {[pc |-> "start", config |-> c, registry |-> r, li |-> 0, ci |-> 0,
      components |-> <<>>, layers |-> <<>>, created |-> <<>>,
      engine |-> NilEngine, err |-> "nil"] :
        c \in BuildConfigs \cup {NilConfig}, r \in {Registry, NilRegistry}}

InitBuild ==
    /\ InitIdle({[layers |-> <<[mode |-> SerialMode, enabled |-> TRUE, parallel |-> 0,
                                components |-> <<[critical |-> FALSE]>>]>>,
                  dependencies |-> <<{}>>]}, {})
    /\ call = NoCall
    /\ timed = NoTimed
    /\ dctx = NoData
    /\ parser = NoParser
    /\ parsing = NoParsing
    /\ build \in Builds

\* an engine that keeps the layers built before the failure
PartialEngine(layers) == [nil |-> FALSE, layers |-> layers]

\* return nil, err
FailedEngine(layers) == NilEngine

\* NewEngine returns (nil, err)
NewEngineFails(err) ==
    build' = [build EXCEPT !.pc = "returned", !.err = err,
                           !.engine = FailedEngine(build.layers)]

\* NewEngine up to the loop over config.Layers
NewEngine ==
    /\ build.pc = "start"
    /\ IF build.config = NilConfig THEN NewEngineFails("nil_config")
       ELSE IF build.registry = NilRegistry THEN NewEngineFails("nil_registry")
       ELSE build' = [build EXCEPT !.pc = "layers"]
    /\ UNCHANGED <<call, timed, hooks, dctx, parser, parsing, config, callers, ctxDone>>
    /\ UNCHANGED engineVars
    /\ UNCHANGED layerVars

\* for _, layerConfig := range config.Layers: NewLayer up to its loop
NewLayer ==
    /\ build.pc = "layers"
    /\ build.li < Len(build.config.layers)
    /\ build' = [build EXCEPT !.pc = "components", !.li = @ + 1, !.ci = 0,
                              !.components = <<>>]
    /\ UNCHANGED <<call, timed, hooks, dctx, parser, parsing, config, callers, ctxDone>>
    /\ UNCHANGED engineVars
    /\ UNCHANGED layerVars

\* if !componentConfig.Enabled { continue }
SkipsComponent(layer, componentConfig) == ~componentConfig.enabled

\* registry.Create(config): the component, or the error
Create(componentConfig) ==
    IF componentConfig.type \notin RegisteredTypes
    THEN [err |-> "factory_not_found"]
    ELSE IF componentConfig.type = "failing"
    THEN [err |-> "factory_failed"]
    ELSE [err |-> "nil", type |-> componentConfig.type]

\* NewLayer: one iteration of the loop over config.Components
CreateComponent ==
    /\ build.pc = "components"
    /\ build.ci < Len(build.config.layers[build.li].components)
    /\ LET layer == build.config.layers[build.li]
           componentConfig == layer.components[build.ci + 1]
           component == Create(componentConfig)
           called == Append(build.created, <<build.li, build.ci + 1>>)
       IN IF SkipsComponent(layer, componentConfig)
          THEN build' = [build EXCEPT !.ci = @ + 1]
          ELSE IF component.err # "nil"
          THEN build' = [build EXCEPT !.pc = "returned",
                                      !.created = called,
                                      !.err = "component_creation_failed",
                                      !.engine = FailedEngine(build.layers)]
          ELSE build' = [build EXCEPT !.ci = @ + 1,
                                      !.created = called,
                                      !.components = Append(@, component)]
    /\ UNCHANGED <<call, timed, hooks, dctx, parser, parsing, config, callers, ctxDone>>
    /\ UNCHANGED engineVars
    /\ UNCHANGED layerVars

\* NewLayer returns the layer
NewLayerReturns ==
    /\ build.pc = "components"
    /\ build.ci = Len(build.config.layers[build.li].components)
    /\ build' = [build EXCEPT !.pc = "validate"]
    /\ UNCHANGED <<call, timed, hooks, dctx, parser, parsing, config, callers, ctxDone>>
    /\ UNCHANGED engineVars
    /\ UNCHANGED layerVars

\* Layer.Validate
Validate(layer, components) ==
    IF layer.name = "" THEN "layer name cannot be empty"
    ELSE IF layer.mode = "" THEN "execution mode cannot be empty"
    ELSE IF layer.mode \notin Modes THEN "invalid execution mode"
    ELSE IF \E i \in 1..Len(components) : components[i].type = "invalid"
    THEN "component validation failed"
    ELSE "nil"

\* layer.Validate(), then engine.layers = append(engine.layers, layer)
ValidateLayer ==
    /\ build.pc = "validate"
    /\ LET layer == build.config.layers[build.li]
           err == Validate(layer, build.components)
       IN IF err # "nil"
          THEN NewEngineFails("layer_validation_failed")
          ELSE build' = [build EXCEPT !.pc = "layers",
                                      !.layers = Append(@, [config |-> build.li,
                                                            components |-> build.components])]
    /\ UNCHANGED <<call, timed, hooks, dctx, parser, parsing, config, callers, ctxDone>>
    /\ UNCHANGED engineVars
    /\ UNCHANGED layerVars

\* return engine, nil
NewEngineReturns ==
    /\ build.pc = "layers"
    /\ build.li = Len(build.config.layers)
    /\ build' = [build EXCEPT !.pc = "returned",
                              !.engine = [nil |-> FALSE, layers |-> build.layers]]
    /\ UNCHANGED <<call, timed, hooks, dctx, parser, parsing, config, callers, ctxDone>>
    /\ UNCHANGED engineVars
    /\ UNCHANGED layerVars

NextBuild ==
    \/ NewEngine
    \/ NewLayer
    \/ CreateComponent
    \/ NewLayerReturns
    \/ ValidateLayer
    \/ NewEngineReturns

\* one call of NewEngine
SpecBuild == InitBuild /\ [][NextBuild]_vars

(***************************************************************************)
(* Specifications                                                          *)
(***************************************************************************)
Next ==
    \/ \E r \in Runs : Lock(r)
    \/ \E r \in Runs : BeforeExecution(r)
    \/ \E r \in Runs : BeginLayer(r)
    \/ \E r \in Runs : ExecuteDisabled(r)
    \/ \E r \in Runs : ExecuteSerial(r)
    \/ \E r \in Runs : SerialCall(r)
    \/ \E r \in Runs : SerialReturn(r)
    \/ \E r \in Runs : ExecuteParallel(r)
    \/ \E t \in Tasks : Acquire(t)
    \/ \E t \in Tasks : Report(t)
    \/ \E t \in Tasks : Release(t)
    \/ \E d \in Dispatches : CloseErrChan(d)
    \/ \E r \in Runs : CollectReceive(r)
    \/ \E r \in Runs : CollectDone(r)
    \/ \E r \in Runs : ExecuteAsync(r)
    \/ \E t \in Tasks : ComponentInitialize(t)
    \/ \E t \in Tasks : ComponentExecute(t)
    \/ \E t \in Tasks : ComponentCleanup(t)
    \/ \E r \in Runs : LayerReturned(r)
    \/ \E r \in Runs : EndLayer(r)
    \/ \E r \in Runs : Finish(r)
    \/ \E r \in Runs : CancelContext(r)
    \/ \E r \in Runs : Discard(r)

\* one call of executeComponent
NextComponent ==
    \/ Initialize
    \/ MainCall
    \/ RetryLoop
    \/ SelectDone
    \/ SelectTimer
    \/ RetryAttempt
    \/ CancelCall
    \/ Deferred

\* one call of Execute on a clock
NextTimed ==
    \/ SetWorkflowTimeout
    \/ EnterLayer
    \/ SkipLayer
    \/ \E l \in 1..2 : ComponentEnds(l)
    \/ LayerReturns
    \/ ExecuteReturns
    \/ Tick

\* one caller, workflows of up to MaxLayers layers
Spec == InitEngine /\ [][Next]_vars

\* two concurrent callers of one engine
SpecConcurrent == InitConcurrent /\ [][Next]_vars

\* one caller, workflows of one layer of up to MaxComps components
SpecLayer == InitLayer /\ [][Next]_vars

\* the steps of the goroutine that executeParallel starts for a component;
\* the calls of the component are steps of it, so every call ends
GoroutineStep(t) ==
    \/ Acquire(t)
    \/ ComponentInitialize(t)
    \/ ComponentExecute(t)
    \/ ComponentCleanup(t)
    \/ Report(t)
    \/ Release(t)

\* the range loop of executeParallel
Collect(r) == CollectReceive(r) \/ CollectDone(r)

\* SpecLayer with the scheduler of the runtime: a goroutine that can take a
\* step takes one, be it a component's goroutine, the goroutine that closes
\* errChan or the caller in its range loop
SpecLayerFair ==
    /\ InitLayer
    /\ [][Next]_vars
    /\ \A c \in CompIds : WF_vars(GoroutineStep(<<1, 1, c>>))
    /\ WF_vars(CloseErrChan(<<1, 1>>))
    /\ WF_vars(Collect(1))

\* one component instance of a layer of two, executed once
SpecComponent == InitComponent /\ [][NextComponent]_vars

\* one call of Execute with a workflow timeout and layer timeouts
SpecTimed == InitTimed /\ [][NextTimed]_vars

(***************************************************************************)
(* Properties                                                              *)
(***************************************************************************)
Range(q) == {q[i] : i \in 1..Len(q)}

\* Execute of run r is between its Lock and its return
InExecute(r) == pc[r] \notin {"idle", "returned", "finished"}

\* the call layer.Execute of run r on layer l is in progress
Dispatching(r, l) == pc[r] \in {"serial", "collect"} /\ CurrentLayer(r) = l

\* the call layer.Execute of run r on layer l has returned
DispatchReturned(r, l) ==
    /\ l \in Range(dispatchLog[r])
    /\ ~Dispatching(r, l)

\* executeComponent is running for t: Initialize, the main call or Cleanup
Executing(t) == task[t].pc \in {"init", "exec", "cleanup"}

\* the main call of t has failed (t.err is its wrapped error)
MainCallFailed(t) == task[t].err # Nil /\ task[t].err.type # "initialization_failed"

LayersOfMode(m) == {l \in 1..NumLayers : Layer(l).enabled /\ Layer(l).mode = m}

\* C1: in every run the layers Execute has dispatched so far are the layers
\* 1, 2, ..., k in declared order, whatever the dependencies say; a layer is
\* dispatched only while no other dispatch of the run is in progress, and a
\* run that returns without error has dispatched every layer.
C1_DeclaredOrder ==
    \A r \in Runs :
        /\ dispatchLog[r] = [i \in 1..Len(dispatchLog[r]) |-> i]
        /\ pc[r] \in {"serial", "collect", "callReturned"}
              => dispatchLog[r][Len(dispatchLog[r])] = layerIdx[r]
        /\ pc[r] = "call" => Len(dispatchLog[r]) = layerIdx[r] - 1
        /\ pc[r] = "returned" /\ returned[r] = Nil => Len(dispatchLog[r]) = NumLayers

\* a run has dispatched two layers, the second of which names the first as
\* its dependency
C1_Witness ==
    \E r \in Runs :
        /\ pc[r] = "returned"
        /\ dispatchLog[r] = <<1, 2>>
        /\ config.dependencies[2] = {1}

\* C2: once a layer's dispatch has returned a CriticalComponentError, no
\* component of a later layer is ever started in that run, and the error that
\* Execute returns is not nil.
C2_CriticalHalts ==
    \A r \in Runs : \A l \in 1..NumLayers :
        (/\ DispatchReturned(r, l)
         /\ \/ pc[r] = "callReturned" /\ CurrentLayer(r) = l /\ IsCriticalError(layerErr[r])
            \/ IsCriticalError(stats[r].layer[l].error))
        => /\ \A t \in Tasks : t[1] = r /\ t[2] > l => task[t] = NoTask
           /\ Len(dispatchLog[r]) = l
           /\ pc[r] = "returned" => returned[r] # Nil

\* the first of two layers has failed critically and Execute has returned
C2_Witness ==
    \E r \in Runs :
        /\ pc[r] = "returned"
        /\ NumLayers = 2
        /\ IsCriticalError(stats[r].layer[1].error)
        /\ returned[r] # Nil

\* C3: when Execute returns, every layer after a layer whose dispatch returned
\* a non-critical error has been dispatched (no hook failed, no layer failed
\* critically and the context was not cancelled).
C3_NonCriticalContinues ==
    \A r \in Runs :
        (/\ pc[r] = "returned"
         /\ ~ctxDone[r]
         /\ \A l \in 1..NumLayers :
               /\ stats[r].layer[l].error # MiddlewareError
               /\ ~IsCriticalError(stats[r].layer[l].error)
         /\ returned[r] # MiddlewareError)
        => \A l \in 1..NumLayers :
              stats[r].layer[l].error # Nil
                 => \A k \in (l + 1)..NumLayers : k \in Range(dispatchLog[r])

\* C4: two calls of Execute on one engine are never both between Lock and
\* return, and the call that is holds the engine's lock: no layer of one call
\* is dispatched before the other call has returned.
C4_NoInterleaving ==
    /\ \A r1, r2 \in Runs : r1 # r2 => ~(InExecute(r1) /\ InExecute(r2))
    /\ \A r \in Runs : InExecute(r) => mu = r

\* one call has returned, a component it started is still running, and the
\* other call is dispatching a layer
C4_Witness ==
    \E r1, r2 \in Runs :
        /\ r1 # r2
        /\ pc[r1] = "finished"
        /\ \E t \in Tasks : t[1] = r1 /\ Executing(t)
        /\ pc[r2] \in {"serial", "collect"}

\* C5: in a serial layer a component is started only after the component
\* before it has returned without error; once a component has returned an
\* error the layer has returned that very error, which names the component,
\* and no later component of the layer is ever started.
C5_SerialStopsAtFirstError ==
    \A r \in Runs : \A l \in LayersOfMode(SerialMode) :
        \A c \in Components(l) :
            LET t == <<r, l, c>> IN
            /\ c > 1 /\ task[t].pc # "none"
                  => task[<<r, l, c - 1>>].pc = "done" /\ task[<<r, l, c - 1>>].err = Nil
            /\ task[t].pc = "done" /\ task[t].err # Nil
                  => /\ ~Dispatching(r, l)
                     /\ layerErr[r] = task[t].err
                     /\ layerErr[r].component = c
                     /\ \A c2 \in Components(l) : c2 > c => task[<<r, l, c2>>] = NoTask

\* a serial layer of two components has returned the error of the first and
\* Execute has returned
C5_Witness ==
    \E r \in Runs : \E l \in LayersOfMode(SerialMode) :
        /\ NumComps(l) = 2
        /\ pc[r] = "returned"
        /\ task[<<r, l, 1>>].pc = "done"
        /\ layerErr[r].component = 1
        /\ layerErr[r].type = "component_execution_failed"
        /\ task[<<r, l, 2>>] = NoTask

\* C6: once the dispatch of a parallel layer has returned, no component of
\* the layer is still waiting for the semaphore or executing.
C6_ParallelWaitsForAll ==
    \A r \in Runs : \A l \in LayersOfMode(ParallelMode) :
        DispatchReturned(r, l)
           => \A c \in Components(l) :
                 task[<<r, l, c>>].pc \notin {"wait", "init", "exec", "cleanup"}

\* C7: in one dispatch of a parallel layer the number of components inside
\* executeComponent is at most 'parallel' when it is > 0 and at most the
\* component count otherwise; no component is started twice, and when the
\* layer's goroutines have all ended every component has been started once.
C7_ParallelismBound ==
    \A r \in Runs : \A l \in LayersOfMode(ParallelMode) :
        LET inside == {c \in Components(l) : Executing(<<r, l, c>>)} IN
        /\ Cardinality(inside) <= (IF Layer(l).parallel > 0 THEN Layer(l).parallel
                                   ELSE NumComps(l))
        /\ \A c \in Components(l) : task[<<r, l, c>>].starts <= 1
        /\ closed[<<r, l>>] = "closed"
              => \A c \in Components(l) : task[<<r, l, c>>].starts = 1

\* with parallel = 1 one component is executing and another waits for the slot
C7_Witness ==
    \E r \in Runs : \E l \in LayersOfMode(ParallelMode) :
        /\ Layer(l).parallel = 1
        /\ NumComps(l) >= 2
        /\ task[<<r, l, 1>>].pc = "wait"
        /\ task[<<r, l, 2>>].pc = "exec"

\* C8 as claimed: when the dispatch of a parallel layer has returned and a
\* component whose spec has critical=true has failed (in Initialize or in its
\* main call), the layer has returned a CriticalComponentError.
C8_AnyCriticalFailure ==
    \A r \in Runs : \A l \in LayersOfMode(ParallelMode) :
        (/\ pc[r] = "callReturned"
         /\ \E c \in Components(l) :
               Layer(l).components[c].critical /\ task[<<r, l, c>>].err # Nil)
        => IsCriticalError(layerErr[r])

\* C8 as amended: when the dispatch of a parallel layer has returned and the
\* main call of a component whose spec has critical=true has failed, the
\* layer has returned a CriticalComponentError, whatever was reported first.
C8_CriticalMainCallFailure ==
    \A r \in Runs : \A l \in LayersOfMode(ParallelMode) :
        (/\ pc[r] = "callReturned"
         /\ \E c \in Components(l) :
               Layer(l).components[c].critical /\ MainCallFailed(<<r, l, c>>))
        => IsCriticalError(layerErr[r])

\* a non-critical failure was collected first, a critical one after it, and
\* the layer has returned the critical error
C8_Witness ==
    \E r \in Runs : \E l \in LayersOfMode(ParallelMode) :
        /\ pc[r] = "callReturned"
        /\ Len(errors[r]) = 2
        /\ errors[r][1].type = "component_execution_failed"
        /\ IsCriticalError(errors[r][2])
        /\ layerErr[r] = errors[r][2]

\* C9: when the dispatch of a parallel layer has returned and no component
\* whose spec has critical=true has failed: with n >= 1 failed components the
\* layer has returned an error of type parallel_execution_failed that reports
\* n and has the first collected error as its cause; with none it returned nil.
C9_ParallelAggregate ==
    \A r \in Runs : \A l \in LayersOfMode(ParallelMode) :
        (/\ pc[r] = "callReturned"
         /\ \A c \in Components(l) :
               Layer(l).components[c].critical => task[<<r, l, c>>].err = Nil)
        => LET failed == {c \in Components(l) : task[<<r, l, c>>].err # Nil}
               n == Cardinality(failed)
           IN IF n = 0 THEN layerErr[r] = Nil
              ELSE /\ layerErr[r].type = "parallel_execution_failed"
                   /\ layerErr[r].n = n
                   /\ layerErr[r].layer = l
                   /\ Len(errors[r]) = n
                   /\ layerErr[r].cause = <<errors[r][1].type, errors[r][1].component>>
                   /\ errors[r][1] = task[<<r, l, errors[r][1].component>>].err

\* two non-critical components have failed, the second was collected first,
\* and the layer has returned the aggregate of the two
C9_Witness ==
    \E r \in Runs : \E l \in LayersOfMode(ParallelMode) :
        /\ pc[r] = "callReturned"
        /\ layerErr[r].type = "parallel_execution_failed"
        /\ layerErr[r].n = 2
        /\ layerErr[r].cause = <<"component_execution_failed", 2>>

\* C10: no error of a component of an async layer ever reaches the value the
\* layer's dispatch returns (it is nil), the executionError or the returned
\* error of Execute, or the statistics, in which a dispatched async layer
\* counts as a success; the dispatch returns whatever its components do.
C10_AsyncFireAndForget ==
    \A r \in Runs : \A l \in LayersOfMode(AsyncMode) :
        /\ pc[r] = "callReturned" /\ CurrentLayer(r) = l => layerErr[r] = Nil
        /\ layerErr[r].layer # l
        /\ executionError[r].layer # l
        /\ returned[r].layer # l
        /\ stats[r].error.layer # l
        /\ stats[r].layer[l].error \in {Nil, MiddlewareError}
        /\ l \in Range(dispatchLog[r]) /\ stats[r].layer[l].ended => stats[r].layer[l].success
        /\ stats[r].layersFailed <= Cardinality(Range(dispatchLog[r]) \ LayersOfMode(AsyncMode))

\* Execute has returned nil with success after dispatching a second layer,
\* while a component of the async first layer, whose main call has failed,
\* is still in its cleanup
C10_Witness ==
    \E r \in Runs :
        /\ pc[r] = "returned"
        /\ returned[r] = Nil
        /\ stats[r].success
        /\ dispatchLog[r] = <<1, 2>>
        /\ Layer(1).mode = AsyncMode
        /\ task[<<r, 1, 1>>].pc = "cleanup"
        /\ task[<<r, 1, 1>>].err # Nil

(***************************************************************************)
(* executeWithRetry and executeComponent (SpecComponent)                   *)
(***************************************************************************)
\* the main call of the followed component has ended (returned or panicked)
MainCallEnded == call.pc \in {"deferred", "returned", "panicked"} /\ ~call.initFailed

\* the sequence <<1, ..., n>>: the errors of attempts 1 to n, in attempt order
AttemptsUpTo(n) == [i \in 1..n |-> i]

AllFailed == \A i \in 1..Len(call.outcomes) : call.outcomes[i] = "fail"
AlwaysRetry == \A i \in 1..Len(call.answers) : call.answers[i]

\* C11: a retry-capable component that fails on attempts 1..k with ShouldRetry
\* true each time and succeeds on attempt k+1, k <= MaxRetries, returns
\* success after exactly k+1 invocations: the successful invocation is the
\* last one, the k before it are within the budget, the main call ends with
\* nil and executeComponent returns nil; and the loop never gives up after
\* fewer than MaxRetries+1 failures that all asked for a retry
C11_RetrySucceeds ==
    (call.pc # "none" /\ call.comp.retryable) =>
        LET n == Len(call.outcomes) IN
        /\ \A i \in 1..n : call.outcomes[i] = "ok" => i = n
        /\ (n > 0 /\ call.outcomes[n] = "ok") =>
              /\ \A i \in 1..(n - 1) : call.outcomes[i] = "fail" /\ call.answers[i]
              /\ n - 1 <= call.comp.retry.maxRetries
              /\ call.pc \in {"deferred", "returned"}
              /\ call.mainErr = NoError
              /\ call.pc = "returned" => call.result = Nil
        /\ (call.mainErr.type = "RetryExhaustedError" /\ AlwaysRetry) =>
              n > call.comp.retry.maxRetries

\* two failures, each followed by ShouldRetry = true, then a success on the
\* last attempt the budget allows
C11_Witness ==
    /\ call.pc = "returned"
    /\ call.comp.retryable
    /\ call.comp.retry.maxRetries = 2
    /\ call.outcomes = <<"fail", "fail", "ok">>
    /\ call.result = Nil

C14_CancelStopsRetry ==
    [][(call.pc = "select" /\ call.ctxDone) =>
            (call'.pc = "deferred" /\ call'.mainErr = ContextDone)]_vars

\* C15: the first attempt is never delayed, and the wait before the k-th
\* retry (k >= 1) is Delay x Backoff x (k-1), as a whole Duration: the first
\* retry waits 0 and the waits grow linearly in k.  Every attempt but the
\* first is preceded by exactly one wait
C15_LinearBackoff ==
    (call.pc # "none" /\ call.comp.retryable) =>
        LET rc == call.comp.retry IN
        /\ \A k \in 1..Len(call.waits) :
              call.waits[k] = (rc.delay * rc.backoffHalves * (k - 1)) \div 2
        /\ Len(call.waits) >= 1 => call.waits[1] = 0
        /\ call.pc = "attempt" => Len(call.waits) = Len(call.outcomes)
        /\ call.pc = "select" => Len(call.waits) = Len(call.outcomes)
        /\ Len(call.waits) <= Len(call.outcomes)

\* two retries of a component with Delay 1 and Backoff 1.5: waits 0 and 1
C15_Witness ==
    /\ call.pc = "attempt"
    /\ call.comp.retryable
    /\ call.comp.retry.delay = 1
    /\ call.comp.retry.backoffHalves = 3
    /\ call.waits = <<0, 1>>
    /\ Len(call.outcomes) = 2

C17_CleanupOnce ==
    (call.pc \notin {"none", "init"} /\ call.comp.cleanup /\ ~call.initFailed) =>
        /\ call.pc \in {"main", "loop", "select", "attempt", "deferred"} => call.cleanups = 0
        /\ call.pc \in {"returned", "panicked"} => call.cleanups = 1
        /\ call.pc = "returned" =>
              /\ (call.result = Nil) <=> (call.mainErr = NoError)
              /\ call.mainErr # NoError => call.result.cause = <<call.mainErr.type, call.name>>

\* the second attempt of a retried main call panics; Cleanup runs, and fails
C17_Witness ==
    /\ call.pc = "panicked"
    /\ call.comp.cleanup
    /\ call.outcomes = <<"fail", "panic">>
    /\ call.cleanups = 1
    /\ call.cleanupFailed

\* C18: if a component's Initialize fails, its main call is never invoked in
\* that execution and executeComponent returns a ComponentError of type
\* initialization_failed with the component's and the layer's name
C18_InitializeFailureSkipsExecute ==
    (call.pc # "none" /\ call.initFailed) =>
        /\ call.outcomes = <<>>
        /\ call.pc = "returned"
        /\ call.result.type = "initialization_failed"
        /\ call.result.component = call.specs[call.created].name
        /\ call.result.layer = 1

\* Initialize of a retry-capable critical component fails
C18_Witness ==
    /\ call.pc = "returned"
    /\ call.initFailed
    /\ call.comp.retryable
    /\ call.specs[call.created].critical
    /\ call.result.type = "initialization_failed"

(***************************************************************************)
(* Contexts and deadlines                                                  *)
(***************************************************************************)
\* C19: if the run's context is cancelled or past its deadline when the check
\* after a layer runs, Execute returns the context's error as the terminal
\* error with stats.Success = false (and stats.Error the same error), and from
\* that check on no layer is dispatched and no component is started in the run
C19_ContextDoneIsTerminal ==
    /\ [](\A r \in Runs :
            (pc[r] = "returned" /\ ctxDone[r]) =>
                /\ returned[r] = ContextError
                /\ ~stats[r].success
                /\ stats[r].error = ContextError)
    /\ [][\A r \in Runs :
            (ctxDone[r] /\ pc[r] # "layerEnd") =>
                /\ Len(dispatchLog'[r]) <= Len(dispatchLog[r])
                /\ \A t \in Tasks : t[1] = r => task'[t].starts <= task[t].starts]_vars

\* the context is done at the check after layer 1 of two, which succeeded:
\* Execute returns the context's error and layer 2 was never dispatched
C19_Witness ==
    /\ pc[1] = "returned"
    /\ ctxDone[1]
    /\ NumLayers = 2
    /\ dispatchLog[1] = <<1>>
    /\ stats[1].layersSuccess = 1
    /\ returned[1] = ContextError

\* the earlier of (run start + W) and (layer start + L) for layer l with
\* timeout L > 0, in a run with workflow timeout W (0: none)
EarlierDeadline(l) ==
    LET own == timed.layerStart[l] + timed.layers[l].timeout
        run == timed.runStart + timed.timeout
    IN IF timed.timeout > 0 /\ run < own THEN run ELSE own

\* C20: for a layer with timeout L in a run with workflow timeout W, the
\* context given to the layer's components is cancelled at the earlier of
\* (run start + W) and (layer start + L): while a component of the layer
\* runs, its context is done exactly from that instant on; and the context of
\* a layer is done only by the workflow deadline or by the layer's own
\* deadline, never by what an earlier layer set
C20_EarlierDeadline ==
    timed.pc # "none" =>
        \A l \in 1..Len(timed.layers) :
            timed.comp[l] = "running" =>
                /\ timed.layers[l].timeout > 0 =>
                      (LayerCtxDone(l) <=> timed.now >= EarlierDeadline(l))
                /\ LayerCtxDone(l) =>
                      \/ timed.timeout > 0 /\ timed.now >= timed.runStart + timed.timeout
                      \/ /\ timed.layers[l].timeout > 0
                         /\ timed.now >= timed.layerStart[l] + timed.layers[l].timeout

(***************************************************************************)
(* The result of Execute and the middleware hooks                          *)
(***************************************************************************)
\* C21: at every return of Execute, stats.Success is true exactly when the
\* returned error is nil; and when the dispatch of some layer returned an
\* error during the run, the returned error is non-nil and stats.Success is
\* false
C21_SuccessIffNoError ==
    \A r \in Runs :
        pc[r] = "returned" =>
            /\ stats[r].success <=> returned[r] = Nil
            /\ stats[r].layersFailed > 0 => returned[r] # Nil /\ ~stats[r].success

\* Execute has returned after the dispatch of layer 1 of two returned an
\* error: the error is returned and Success is false
C21_Witness ==
    /\ pc[1] = "returned"
    /\ NumLayers = 2
    /\ dispatchLog[1] = <<1>>
    /\ stats[1].layersFailed = 1
    /\ stats[1].layer[1].error = ExecutionError(1, 1)
    /\ returned[1] # Nil
    /\ ~stats[1].success

\* Execute has returned the error of a BeforeExecution hook
BeforeExecutionFailed(r) ==
    pc[r] = "returned" /\ returned[r].type = "middleware before execution failed"

\* C22: when a BeforeExecution hook fails, Execute returns at once an error
\* that wraps the hook's error: the failed hook is the last hook invoked, no
\* layer was dispatched and no component started, and the engine lock is
\* free, so that the next call of Execute on the engine can take it
C22_BeforeExecutionAborts ==
    \A r \in Runs :
        /\ hooks[r].failed > 0 => BeforeExecutionFailed(r)
        /\ BeforeExecutionFailed(r) =>
            /\ returned[r] = BeforeExecutionError(MiddlewareError)
            /\ hooks[r].failed > 0
            /\ hooks[r].before = hooks[r].failed
            /\ ~hooks[r].later
            /\ dispatchLog[r] = <<>>
            /\ \A t \in Tasks : t[1] = r => task[t].starts = 0
            /\ \A l \in LayerIds : ~stats[r].layer[l].created
            /\ LockFree(mu)

\* the first of two hooks has failed in the call of caller 1 while caller 2
\* has yet to call: the lock is free for it
C22_Witness ==
    /\ BeforeExecutionFailed(1)
    /\ hooks[1].failed = 1
    /\ hooks[1].before = 1
    /\ pc[2] = "idle"
    /\ 2 \in callers
    /\ mu = 0

\* C23: a failing BeforeLayer hook is not fatal: when Execute returns, every
\* layer whose BeforeLayer hook failed was dispatched all the same, and the
\* hook's error is not the error returned
C23_BeforeLayerNonFatal ==
    \A r \in Runs :
        pc[r] = "returned" =>
            /\ \A l \in 1..NumLayers :
                  stats[r].layer[l].error = MiddlewareError => l \in Range(dispatchLog[r])
            /\ returned[r] # MiddlewareError

(***************************************************************************)
(* DataContext                                                             *)
(***************************************************************************)
\* goroutine g is between taking the lock and releasing it
InCritical(g) == dctx.g[g].pc \in {"held", "copy", "accessed"}

\* C24: under every interleaving of the callers of one DataContext, while a
\* Set or Delete may access the map no other operation may; reads overlap
\* only with reads; and operations are atomic: the map does not change while
\* a read is in progress, so a finished Snapshot holds exactly what the map
\* held when it began and still holds, never half of a write
C24_ReadWriteExclusion ==
    /\ [](dctx.pc = "ready" =>
            /\ \A g \in Goroutines : \A h \in Goroutines \ {g} :
                  InCritical(g) /\ dctx.g[g].op \in WriteOps => ~InCritical(h)
            /\ \A g \in Goroutines : \A h \in Goroutines \ {g} :
                  InCritical(g) /\ dctx.g[g].op \in ReadOps /\ InCritical(h)
                      => dctx.g[h].op \in ReadOps
            /\ \A g \in Goroutines :
                  dctx.g[g].op = "Snapshot" /\ dctx.g[g].pc = "accessed" =>
                      /\ dctx.heap[dctx.g[g].snap] = dctx.g[g].seen
                      /\ dctx.heap[dctx.g[g].snap] = dctx.heap[dctx.data])
    /\ [][dctx.pc = "ready"
            /\ (\E g \in Goroutines : InCritical(g) /\ dctx.g[g].op \in ReadOps)
              => dctx'.heap[dctx.data] = dctx.heap[dctx.data]]_vars

\* goroutine 1 has copied one of two entries in Snapshot while the Set called
\* by goroutine 2 waits for the lock
C24_Witness ==
    /\ dctx.pc = "ready"
    /\ dctx.g[1].op = "Snapshot"
    /\ dctx.g[1].pc = "copy"
    /\ Cardinality(dctx.g[1].copied) = 1
    /\ dctx.g[2].op = "Set"
    /\ dctx.g[2].pc = "call"
    /\ dctx.readers = {1}

\* what a plain map m answers to the read op of key k
PlainAnswer(op, m, k) ==
    CASE op = "Get" -> [value |-> m[k], ok |-> k \in KeysOf(m)]
      [] op = "Has" -> [value |-> Absent, ok |-> k \in KeysOf(m)]
      [] op = "GetString" ->
            IF k \in KeysOf(m) /\ m[k] = StringValue
            THEN [value |-> StringValue, ok |-> TRUE]
            ELSE [value |-> EmptyString, ok |-> FALSE]
      [] OTHER -> NoResult

\* C25: the container answers as a plain map given the same calls: it holds
\* what the plain map holds (so Get and Has after Set(k, v) see v, and Has(k)
\* is false after Delete(k)); Get, Has and GetString return what the plain
\* map gives, GetString ("", false) for a missing key or a non-string; a
\* Snapshot is a map of its own that keeps what the container held when it
\* was taken, and the initial map keeps what it held, whatever is Set or
\* Deleted later
C25_PlainMapSemantics ==
    dctx.pc = "ready" =>
        /\ dctx.heap[dctx.data] = dctx.plain
        /\ dctx.heap[InitialMap] = dctx.given
        /\ \A g \in Goroutines :
              dctx.g[g].pc = "returned" =>
                  /\ dctx.g[g].op \in {"Get", "Has", "GetString"} =>
                        dctx.g[g].res = PlainAnswer(dctx.g[g].op, dctx.g[g].seen, dctx.g[g].key)
                  /\ dctx.g[g].op = "Snapshot" =>
                        /\ dctx.g[g].snap \notin {dctx.data, InitialMap}
                        /\ dctx.heap[dctx.g[g].snap] = dctx.g[g].seen

\* goroutine 1 holds a Snapshot with k1, which the initial map has too, and
\* goroutine 2 has since deleted k1 from the container
C25_Witness ==
    /\ dctx.pc = "ready"
    /\ dctx.given["k1"] = IntValue
    /\ dctx.g[1].op = "Snapshot"
    /\ dctx.g[1].pc = "returned"
    /\ dctx.heap[dctx.g[1].snap]["k1"] = IntValue
    /\ dctx.g[2].op = "Delete"
    /\ dctx.g[2].key = "k1"
    /\ dctx.g[2].pc = "returned"
    /\ dctx.plain["k1"] = Absent
    /\ dctx.heap[InitialMap]["k1"] = IntValue

(***************************************************************************)
(* 'extends'                                                               *)
(***************************************************************************)
RECURSIVE ExtendsChain(_, _, _)
\* the files met by following 'extends' from file f in the files fs, for up
\* to n references
ExtendsChain(fs, f, n) ==
    IF n = 0 \/ fs[f].extends \notin FileNames THEN {f}
    ELSE {f} \cup ExtendsChain(fs, fs[f].extends, n - 1)

Chain(f) == ExtendsChain(parser.files, f, Cardinality(FileNames))

\* the 'extends' references from f form a cycle: they never reach a config
\* without 'extends' nor a file that is missing
Cyclic(f) == \A x \in Chain(f) : parser.files[x].extends \in FileNames

\* the references from f end at a config without 'extends', and every config
\* on the way is valid once resolved
Resolvable(f) ==
    /\ \E x \in Chain(f) : parser.files[x].extends = NoExtends
    /\ \A x \in Chain(f) : parser.files[x].valid

\* C26: resolving a config whose 'extends' references form a cycle (a file
\* that extends itself included) ends, and ends with extends_cycle_detected;
\* the nesting of the calls never exceeds the number of distinct references
\* plus one
C26_CycleDetected ==
    /\ [](parser.pc # "none" =>
            /\ Len(parser.stack) <= Cardinality(FileNames) + 1
            /\ \A i \in 1..Len(parser.results) :
                  Cyclic(parser.results[i].file)
                      => parser.results[i].err = "extends_cycle_detected")
    /\ (parser.pc \in {"enter", "merge"} ~> parser.pc = "idle")

\* the first call on the parser was for a, where a extends b and b extends
\* a; it has ended with the cycle error
C26_Witness ==
    /\ parser.pc = "idle"
    /\ parser.files["a"].extends = "b"
    /\ parser.files["b"].extends = "a"
    /\ Len(parser.results) = 1
    /\ parser.results[1] = [file |-> "a", err |-> "extends_cycle_detected"]
    /\ parser.visitedExtends = {"a", "b"}

\* C27: the visited set is that of one top-level call: on one parser, every
\* top-level call for a config whose references end at a root, all valid,
\* succeeds, whatever the parser resolved before; and the cycle error is
\* returned only when the references form a cycle
C27_VisitedPerTopLevelCall ==
    parser.pc # "none" =>
        \A i \in 1..Len(parser.results) :
            /\ Resolvable(parser.results[i].file) => parser.results[i].err = "nil"
            /\ parser.results[i].err = "extends_cycle_detected"
                  => Cyclic(parser.results[i].file)

(***************************************************************************)
(* Validation and merge                                                    *)
(***************************************************************************)
\* the validation rules but the one on dependencies: a name, at least one
\* layer, layer names non-empty and unique, a valid mode (none given is the
\* default), at least one component per layer, component names non-empty
\* and unique within the layer, component types non-empty
RulesButDependencies(c) ==
    /\ c.name # ""
    /\ Len(c.layers) >= 1
    /\ \A i \in 1..Len(c.layers) :
          LET l == c.layers[i] IN
          /\ l.name # ""
          /\ \A k \in 1..Len(c.layers) : k # i => c.layers[k].name # l.name
          /\ l.mode \in Modes \cup {""}
          /\ Len(l.components) >= 1
          /\ \A j \in 1..Len(l.components) :
                /\ l.components[j].name # ""
                /\ l.components[j].type # ""
                /\ \A k \in 1..Len(l.components) :
                      k # j => l.components[k].name # l.components[j].name

\* the layers of c with a dependency that names no layer of c, the layer
\* itself or a later layer
BadDependencyLayers(c) ==
    {i \in 1..Len(c.layers) :
        \E d \in 1..Len(c.layers[i].dependencies) :
            ~\E k \in 1..(i - 1) : c.layers[k].name = c.layers[i].dependencies[d]}

AllRules(c) == RulesButDependencies(c) /\ BadDependencyLayers(c) = {}

\* the config the last call of validateConfig was given
Validated ==
    IF parsing.data.extends = NoExtends THEN parsing.data ELSE parsing.heap[parsing.merged]

\* C28: every config that ParseBytes returns without error, with or without
\* 'extends', satisfies every validation rule, with a mode of the three set
\* in each layer; an error comes with no config; and a config that breaks a
\* rule, as given or as merged, is answered by an error
C28_ReturnedConfigValid ==
    parsing.pc # "none" =>
        /\ \A i \in 1..Len(parsing.results) :
              LET r == parsing.results[i] IN
              IF r.err = NilError
              THEN /\ r.cfg # NoConfig
                   /\ AllRules(r.cfg)
                   /\ \A k \in 1..Len(r.cfg.layers) : r.cfg.layers[k].mode \in Modes
              ELSE r.cfg = NoConfig
        /\ parsing.pc = "returned" /\ (parsing.data.extends = NoExtends \/ parsing.loaded # NoConfig)
              => (parsing.results[Len(parsing.results)].err = NilError <=> AllRules(Validated))

\* ParseBytes has returned the merge of the two-layer parent with data that
\* adds a layer L3 and sets the mode of L2: three valid layers, the mode of
\* L3 set by default
C28_Witness ==
    /\ parsing.pc = "returned"
    /\ parsing.loaded # NoConfig
    /\ Len(parsing.loaded.layers) = 2
    /\ Len(parsing.data.layers) = 2
    /\ parsing.data.layers[1].name = "L3"
    /\ parsing.data.layers[2].name = "L2"
    /\ parsing.data.layers[2].mode = AsyncMode
    /\ Len(parsing.results) = 1
    /\ parsing.results[1].err = NilError
    /\ Len(parsing.results[1].cfg.layers) = 3
    /\ parsing.results[1].cfg.layers[2].mode = AsyncMode
    /\ parsing.results[1].cfg.layers[3].mode = SerialMode

\* C29: validation accepts a config that keeps the other rules exactly when
\* every dependency of every layer names a layer at a strictly smaller
\* position; otherwise (a dependency on the layer itself, on a later layer or
\* on a name no layer has) it fails with a ValidationError on the
\* dependencies field of the first layer that has such a dependency
C29_DependenciesStrictlyEarlier ==
    (/\ parsing.pc = "returned"
     /\ parsing.data.extends = NoExtends \/ parsing.loaded # NoConfig
     /\ RulesButDependencies(Validated))
    => LET err == parsing.results[Len(parsing.results)].err
           bad == BadDependencyLayers(Validated)
       IN /\ err = NilError <=> bad = {}
          /\ bad # {} =>
                /\ err.type = "ValidationError"
                /\ err.field = "layers.dependencies"
                /\ err.layer + 1 \in bad
                /\ \A i \in bad : err.layer + 1 <= i

\* data whose first layer L1 depends on L1 itself was refused on
\* layers[0].dependencies
C29_Witness ==
    /\ parsing.pc = "returned"
    /\ parsing.data.extends = NoExtends
    /\ Len(parsing.data.layers) = 2
    /\ parsing.data.layers[1].name = "L1"
    /\ parsing.data.layers[1].dependencies = <<"L1">>
    /\ RulesButDependencies(parsing.data)
    /\ parsing.results[1].err.field = "layers.dependencies"
    /\ parsing.results[1].err.layer = 0
    /\ parsing.results[1].err.message = "circular or forward dependency detected"

Named(s, name) == {i \in 1..Len(s) : s[i].name = name}

\* the entry of list s that has the name, when there is one
Entry(s, name) == s[CHOOSE i \in Named(s, name) : TRUE]

\* the names that list s marks remove:true
Marked(s) == {s[i].name : i \in {k \in 1..Len(s) : s[k].remove}}

\* C31: in a merge that returned a config, for a name that one entry of the
\* child's layers has: when that entry is marked remove:true the result has no
\* layer of the name, whether the parent has one or not, and every layer of
\* the parent that no marker names is still in the result; the same for the
\* components of a child layer whose name one entry has: a component marked
\* remove:true is in no layer of that name in the result, and every
\* component of the parent's layer that no marker names is still there
C31_RemoveMarker ==
    parsing.pc = "returned" /\ parsing.loaded # NoConfig =>
        \A r \in 1..Len(parsing.results) :
            parsing.results[r].err = NilError =>
                LET parent == parsing.loaded.layers
                    child == parsing.data.layers
                    merged == parsing.results[r].cfg.layers
                IN /\ \A n \in 1..Len(child) :
                         child[n].remove /\ Named(child, child[n].name) = {n}
                            => Named(merged, child[n].name) = {}
                   /\ \A i \in 1..Len(parent) :
                         parent[i].name \notin Marked(child)
                            => Named(merged, parent[i].name) # {}
                   /\ \A n \in 1..Len(child) :
                         ~child[n].remove /\ Named(child, child[n].name) = {n}
                            => LET name == child[n].name
                                   ccs == child[n].components
                               IN /\ \A m \in 1..Len(ccs) :
                                        /\ ccs[m].remove
                                        /\ Named(ccs, ccs[m].name) = {m}
                                        /\ Named(merged, name) # {}
                                        => Named(Entry(merged, name).components, ccs[m].name) = {}
                                  /\ Named(parent, name) # {} =>
                                        \A j \in 1..Len(Entry(parent, name).components) :
                                            LET c == Entry(parent, name).components[j] IN
                                            c.name \notin Marked(ccs)
                                               => Named(Entry(merged, name).components, c.name) # {}

\* the map that has, at each key the child has, the child's value and, at
\* every other key, the parent's value or none
KeyByKey(parentMap, childMap) ==
    [k \in DOMAIN parentMap |->
        IF childMap[k] # Missing THEN childMap[k] ELSE parentMap[k]]

\* C32: in a merge that returned a config, the global map and the metadata
\* map of the result have at every key of the child the child's value and at
\* every other key what the parent has there; and so has the config map of
\* a component that the parent's layer and one entry of the child's layer of
\* the same name both have
C32_MapsMergedKeyByKey ==
    parsing.pc = "returned" /\ parsing.loaded # NoConfig =>
        \A r \in 1..Len(parsing.results) :
            parsing.results[r].err = NilError =>
                LET parent == parsing.loaded
                    child == parsing.data
                    merged == parsing.results[r].cfg
                IN /\ merged.global = KeyByKey(parent.global, child.global)
                   /\ merged.metadata = KeyByKey(parent.metadata, child.metadata)
                   /\ \A n \in 1..Len(child.layers) :
                        LET cl == child.layers[n] IN
                        /\ ~cl.remove
                        /\ Named(child.layers, cl.name) = {n}
                        /\ Named(parent.layers, cl.name) # {}
                        => \A m \in 1..Len(cl.components) :
                              LET cc == cl.components[m]
                                  pcs == Entry(parent.layers, cl.name).components
                                  mcs == Entry(merged.layers, cl.name).components
                              IN /\ ~cc.remove
                                 /\ Named(cl.components, cc.name) = {m}
                                 /\ Named(pcs, cc.name) # {}
                                 => /\ Named(mcs, cc.name) # {}
                                    /\ Entry(mcs, cc.name).config
                                          = KeyByKey(Entry(pcs, cc.name).config, cc.config)

\* the two-layer parent was merged with data that gives key g of global, key
\* h of metadata and keys x and z of the config of component A of L1: the
\* result has the child's values there and the parent's at the other keys
C32_Witness ==
    /\ parsing.pc = "returned"
    /\ parsing.loaded # NoConfig
    /\ parsing.loaded.global = [g |-> "p", h |-> "p"]
    /\ parsing.data.global = [g |-> "c", h |-> Missing]
    /\ Len(parsing.data.layers) = 1
    /\ parsing.data.layers[1].name = "L1"
    /\ Len(parsing.data.layers[1].components) = 1
    /\ parsing.data.layers[1].components[1].config = [x |-> "c", y |-> Missing, z |-> "c"]
    /\ parsing.results[1].err = NilError
    /\ parsing.results[1].cfg.global = [g |-> "c", h |-> "p"]
    /\ parsing.results[1].cfg.metadata = [g |-> "p", h |-> "c"]
    /\ parsing.results[1].cfg.layers[1].components[1].config = [x |-> "c", y |-> "p", z |-> "c"]

\* C33: a config that ParseBytes returns for data without 'extends' is the
\* data with version "1.0.0" where it had none, mode serial in a layer that
\* had none, timeout 30s in a component that had none, and enabled true in a
\* layer or component whose 'enabled' the text left out; what the text set
\* is kept, in particular an "enabled": false of a layer or a component
C33_DefaultsFillOnlyUnset ==
    /\ parsing.pc = "returned"
    /\ parsing.data.extends = NoExtends
    /\ parsing.results[1].err = NilError
    => LET data == parsing.data
           cfg == parsing.results[1].cfg
           Enabled(given) == IF parsing.explicit \/ given THEN given ELSE TRUE
       IN /\ cfg.version = (IF data.version = "" THEN "1.0.0" ELSE data.version)
          /\ Len(cfg.layers) = Len(data.layers)
          /\ \A i \in 1..Len(data.layers) :
                LET dl == data.layers[i]
                    l == cfg.layers[i]
                IN /\ l.mode = (IF dl.mode = "" THEN SerialMode ELSE dl.mode)
                   /\ l.enabled = Enabled(dl.enabled)
                   /\ Len(l.components) = Len(dl.components)
                   /\ \A j \in 1..Len(dl.components) :
                         LET dc == dl.components[j]
                             c == l.components[j]
                         IN /\ c.timeout = (IF dc.timeout = 0 THEN DefaultTimeout ELSE dc.timeout)
                            /\ c.enabled = Enabled(dc.enabled)

(***************************************************************************)
(* Engine construction                                                     *)
(***************************************************************************)
\* the enabled components of the enabled layers of a config, each the
\* position of its layer and of its component
EnabledSpecs(c) ==
    {<<l, k>> \in (1..2) \X (1..2) :
        /\ l <= Len(c.layers)
        /\ k <= Len(c.layers[l].components)
        /\ c.layers[l].enabled
        /\ c.layers[l].components[k].enabled}

\* C34: NewEngine calls registry.Create only for enabled components of
\* enabled layers, at most once each and in the order of the config; when it
\* returns an engine it has called Create for every one of them; and only
\* enabled layers and enabled components have an instance in the engine
C34_CreateOnlyEnabled ==
    build.pc \notin {"none", "start"} /\ build.config # NilConfig =>
        /\ \A i \in 1..Len(build.created) : build.created[i] \in EnabledSpecs(build.config)
        /\ \A i \in 1..Len(build.created) : \A j \in 1..Len(build.created) :
              i < j => \/ build.created[i][1] < build.created[j][1]
                       \/ /\ build.created[i][1] = build.created[j][1]
                          /\ build.created[i][2] < build.created[j][2]
        /\ build.pc = "returned" /\ build.err = "nil"
              => /\ Range(build.created) = EnabledSpecs(build.config)
                 /\ \A i \in 1..Len(build.engine.layers) :
                       build.config.layers[build.engine.layers[i].config].enabled

\* the conditions under which NewEngine is to fail: no config, no registry,
\* an enabled component that cannot be created, a layer with no name or no
\* valid mode, or with a created component that does not validate
MustFail(b) ==
    \/ b.config = NilConfig
    \/ b.registry = NilRegistry
    \/ \E l \in 1..Len(b.config.layers) :
          LET layer == b.config.layers[l] IN
          \/ layer.name = ""
          \/ layer.mode \notin Modes
          \/ \E k \in 1..Len(layer.components) :
                /\ layer.components[k].enabled
                /\ layer.components[k].type \in {"unknown", "failing", "invalid"}

\* C35: NewEngine returns an error and no engine when the config is nil,
\* the registry is nil, an enabled component cannot be created or a layer
\* fails its validation, and only then; otherwise it returns no error and an
\* engine with a layer for every layer of the config; it never returns both
\* an error and an engine
C35_NoPartialEngine ==
    build.pc = "returned" =>
        /\ build.err # "nil" <=> MustFail(build)
        /\ build.err # "nil" => build.engine = NilEngine
        /\ build.err = "nil" =>
              /\ build.engine # NilEngine
              /\ Len(build.engine.layers) = Len(build.config.layers)

\* NewEngine built its first layer and then failed to create a component of
\* the second: it returned the error and no engine
C35_Witness ==
    /\ build.pc = "returned"
    /\ build.err = "component_creation_failed"
    /\ build.li = 2
    /\ Len(build.layers) = 1
    /\ build.engine = NilEngine

(***************************************************************************)
(* Statistics                                                              *)
(***************************************************************************)
\* C36: when Execute has returned and no BeforeExecution hook failed, every
\* layer it called layer.Execute on has a LayerStats entry with its end time
\* and duration set, its error the error the dispatch returned and its
\* success flag true exactly when there is none, also the layer whose
\* critical failure ended the run
C36_DispatchedLayerStatsComplete ==
    \A r \in Runs :
        pc[r] = "returned" /\ hooks[r].failed = 0 =>
            \A l \in Range(dispatchLog[r]) :
                /\ stats[r].layer[l].created
                /\ stats[r].layer[l].ended
                /\ stats[r].layer[l].success <=> stats[r].layer[l].error = Nil

\* the components of layer l whose execution has failed in run r
FailedComponents(r, l) == {c \in Components(l) : task[<<r, l, c>>].err # Nil}

\* C40: in the statistics Execute returns, a layer's ComponentsFailed is the
\* number of its components whose execution failed in the run and its
\* ComponentsSuccess is ComponentsTotal less ComponentsFailed; a layer whose
\* dispatch returned an error has ComponentsFailed >= 1
C40_ComponentsFailedCounted ==
    \A r \in Runs :
        pc[r] = "returned" /\ hooks[r].failed = 0 =>
            \A l \in Range(dispatchLog[r]) :
                LET layerStats == stats[r].layer[l] IN
                /\ layerStats.componentsFailed = Cardinality(FailedComponents(r, l))
                /\ layerStats.componentsSuccess
                      = layerStats.componentsTotal - layerStats.componentsFailed
                /\ layerStats.error # Nil => layerStats.componentsFailed >= 1

(***************************************************************************)
(* Async layers, retry policies and parallel dispatch                      *)
(***************************************************************************)
\* C37: while the component of an async layer with timeout T > 0 runs, the
\* context it was given is done only when T has passed since the layer was
\* entered or when the context of the run is done; the return of
\* layer.Execute does not end it
C37_AsyncContextLive ==
    timed.pc # "none" =>
        \A l \in 1..Len(timed.layers) :
            /\ timed.layers[l].mode = AsyncMode
            /\ timed.layers[l].timeout > 0
            /\ timed.comp[l] = "running"
            /\ LayerCtxDone(l)
            => \/ timed.now >= timed.layerStart[l] + timed.layers[l].timeout
               \/ RunCtxDone

\* C38: when the main call of a retry-capable component has ended, whatever
\* its RetryConfig (MaxRetries zero or negative too), component.Execute was
\* called at least once and at most 1 + max(MaxRetries, 0) times, and a
\* RetryExhaustedError has a LastError and at least one error in RetryErrors
C38_AtLeastOneAttempt ==
    (call.pc # "none" /\ call.comp.retryable /\ MainCallEnded) =>
        LET max == call.comp.retry.maxRetries
            n == Len(call.outcomes)
        IN /\ n >= 1
           /\ n <= 1 + (IF max > 0 THEN max ELSE 0)
           /\ call.mainErr.type = "RetryExhaustedError" =>
                 /\ call.mainErr.attempt # 0
                 /\ Len(call.mainErr.errs) >= 1

\* t is the goroutine of a component of a parallel layer of the config
ParallelTask(t) ==
    /\ LayerOf(t) <= NumLayers
    /\ CompOf(t) <= NumComps(LayerOf(t))
    /\ Layer(LayerOf(t)).mode = ParallelMode

\* C39: in a parallel layer, whatever its parallelism bound and however many
\* components fail, a goroutine that has an error to report finds room in
\* errChan, every goroutine that was started gets its slot, reports and ends,
\* also when executeParallel has returned before it, and executeParallel
\* returns
C39_ParallelDispatchTerminates ==
    /\ [](\A t \in Tasks :
            ParallelTask(t) /\ task[t].pc = "ret" /\ task[t].err # Nil
               => Len(errChan[DispatchOf(t)]) < NumComps(LayerOf(t)))
    /\ \A t \in Tasks :
          (/\ ParallelTask(t)
           /\ task[t].pc \in {"wait", "init", "exec", "cleanup", "ret", "exit"})
             ~> (task[t].pc \in {"done", "none"})
    /\ \A r \in Runs : (pc[r] = "collect") ~> (pc[r] # "collect")

\* two components share one slot and the first is critical: both failed,
\* executeParallel returned the critical error when it received it, and the
\* second goroutine has left its error in errChan and ended after that
C39_Witness ==
    /\ Layer(1).mode = ParallelMode
    /\ Layer(1).parallel = 1
    /\ NumComps(1) = 2
    /\ pc[1] = "callReturned"
    /\ IsCriticalError(layerErr[1])
    /\ Len(errors[1]) = 1
    /\ Len(errChan[<<1, 1>>]) = 1
    /\ task[<<1, 1, 1>>].pc = "done"
    /\ task[<<1, 1, 2>>].pc = "done"
    /\ semaphore[<<1, 1>>] = 0

====
